---- MODULE Spec2Model ----
(***************************************************************************)
(* A model of the pyxus ground-control backend: the RC-override validator, *)
(* the per-link command queue and worker, the mission upload / download    *)
(* protocol engine, the telemetry handler and the status-text ring.        *)
(* The module holds several specifications, one per subsystem; each one    *)
(* leaves the variables of the other subsystems at their idle values.      *)
(***************************************************************************)
EXTENDS Integers, Sequences, FiniteSets, TLC

VARIABLES
    \* --- RC validation harness (drone.py _validate_rc_channels) ---
    rcIn,           \* the list handed to the validator
    rcOut,          \* what the call produced: a list, or an exception
    \* --- link: command queue, worker loop, wire (drone.py) ---
    cmdQueue,       \* DroneConnection._cmd_queue (FIFO of command records)
    wire,           \* messages the worker has sent and the vehicle has not read
    workerPc,       \* position of _run_loop: "top", "drain", "recv"
    isArdupilot,    \* DroneConnection._is_ardupilot
    mavType,        \* DroneConnection._mav_type
    nextId,         \* serial number given to the next enqueued record
    executed,       \* serial numbers of the records _execute_cmd has run
    wsAlive,        \* the WebSocket handler coroutine is still running
    \* --- mission engine (mission.py) and its inbox (drone.py) ---
    connected,      \* DroneConnection.connected
    now,            \* time.time(), in seconds
    linkRx,         \* mission messages sent by the vehicle, not yet received
    missionInbox,   \* DroneConnection._mission_msg_queue
    missionStatus,  \* MissionManager._status
    upPc,           \* position of upload(): "idle", "top", "recv", "done"
    upWaypoints,    \* the waypoints argument of upload()
    upDeadline,     \* upload's `deadline`
    upRecvStart,    \* when the pending recv_mission_msg was entered
    upResult,       \* what upload() returned: "none", "True", "False"
    upFirstEvent,   \* first of: accepted ack read, other ack read, bad
                    \* request read, read timed out, deadline passed
    upCalls,        \* number of upload() calls made
    requestsSent,   \* number of item requests the vehicle has sent
    \* --- mission download (mission.py) ---
    dlPc,           \* position of download(): "idle", "count", "item", "done"
    dlCount,        \* download's `count`
    dlSeq,          \* download's `seq`
    dlItems,        \* download's `items` (its return value when done)
    dlAfterUpload,  \* download() was called after upload() returned True
    \* --- the vehicle of the round trip (sitl/mock_drone.py) ---
    vehItems,       \* MockDrone.mission_items
    vehExpected,    \* MockDrone.mission_count_expected
    \* --- telemetry (drone.py _handle_message, get_telemetry, main.py) ---
    telLock,        \* holder of DroneConnection._lock: "free", "worker", "reader", "ctl"
    tel,            \* DroneConnection._telemetry: field name -> value
    telGen,         \* DroneConnection.telemetry_generation, NoAttr when the
                    \* instance has no such attribute
    hmPc,           \* _handle_message: 0 outside the locked block, else the
                    \* index of the next assignment of the message's branch
    hmMsg,          \* the telemetry message being handled
    telCount,       \* telemetry messages handled so far
    rdPc,           \* get_telemetry: "idle", "want", "read", "done"
    rdNext,         \* index of the next field to_dict reads
    rdSnap,         \* the dict to_dict is building (its result when done)
    rdRaced,        \* the call was made while an update was half written
    rdCount,        \* get_telemetry calls made so far
    ctlPc,          \* connect / disconnect: "idle", "conn", "disc"
    ctlNext,        \* index of connect's next assignment under the lock
    ctlCount,       \* connect calls made so far
    bcState,        \* telemetry_broadcast: "run", or the exception that ended it
    \* --- status text (drone.py STATUSTEXT branch, drain_statustext) ---
    stQueue,        \* DroneConnection._statustext_queue
    stNow,          \* time.time(), in ticks of 1 / TicksPerSec seconds
    stLast,         \* (severity, text) -> tick of its latest arrival
    stEvent,        \* the latest arrival and what the handler did with it
    stCount,        \* STATUSTEXT messages handled so far
    \* --- telemetry broadcaster (main.py telemetry_broadcast) ---
    bcNow,          \* asyncio loop time, in ticks of 0.1 s
    bcDrone,        \* the served drone's TelemetryState fields and counter
    bcSnap,         \* last_snapshot[drone_id]; EmptyDict when absent
    bcLastGen,      \* last_generation[drone_id]; -1 when absent
    bcLastMission,  \* last_mission_status[drone_id]; "None" when absent
    bcLastFull,     \* last_full_sync[drone_id]; 0 when absent
    bcLastSend,     \* last_send_time[drone_id]; 0 when absent
    bcOut,          \* the payload of the latest ws_manager.broadcast
    bcEmits,        \* number of payloads emitted so far
    bcEmitAt,       \* loop time of the latest emission
    bcAtEmit,       \* the drone's fields as they were at the latest emission
    bcClient,       \* a client's copy: every payload emitted, overlaid in order
    bcEvents,       \* telemetry messages the drone has handled so far
    \* --- vehicle registry (registry.py VehicleRegistry) ---
    regConns,       \* keys of _connections (conn<n> is kept as n)
    regCounter,     \* _conn_counter
    regVehicles,    \* _vehicles: entries (key, link, sysid) in insertion order
    regNames,       \* vehicle_id attribute of each Vehicle object (link, sysid)
    regActive,      \* _active_vehicle_id; NoVid when None
    regLinkVeh,     \* link -> sysids of conn.get_vehicles(), in discovery order
    regPending,     \* the link add_connection has connected but not registered; 0 when none
    regClosed,      \* links whose disconnect() was called
    regEvent,       \* the latest registry call, its arguments and its result
    \* --- parameter API (main.py api_params_set, drone.py set_param) ---
    prmQueue,       \* set_param commands waiting in the drone's command queue
    prmWire,        \* PARAM_SET messages sent to the vehicle
    prmCall,        \* the latest request and the response it got
    prmCalls,       \* requests handled so far
    \* --- HEARTBEAT decoding (drone.py _handle_message, HEARTBEAT branch) ---
    hbConn,         \* _is_ardupilot and _mav_type of the connection
    hbMsg,          \* the latest HEARTBEAT handled
    hbTel,          \* _telemetry.armed and _telemetry.mode
    hbCount,        \* HEARTBEATs handled so far
    \* --- connect handshake (drone.py connect, _register_component) ---
    hsPc,           \* "idle", "loop", "recv", "ok" (returned True), "failed"
    hsNow,          \* time.time() - start_time, in ticks of 1 / HsTicksPerSec s
    hsRecvStart,    \* when the pending recv_match began
    hsLastHbSent,   \* last_hb_sent; Never before the first
    hsComponents,   \* _components: entries (key, mav_type, category, heartbeat_count)
    hsTarget,       \* vehicle_msg and the time it was received; NoHeartbeat when None
    hsSeen,         \* heartbeats received so far
    \* --- vehicle profiles (vehicle_profiles.py get_profile) ---
    pfIn,           \* the argument of the latest get_profile call
    pfOut,          \* what it returned; NoProfile before the first call
    \* --- mission engine: what the calls sent and their read windows ---
    upSent,         \* records upload() has enqueued in this call, oldest first
    dlDeadline,     \* download's `deadline` for the item being fetched
    dlRecvStart,    \* when download's pending recv_mission_msg was entered
    \* --- fence uploads (mission.py upload_fence, upload_polygon_fence) ---
    fnPc,           \* position of the call: "idle", "top", "recv", "done"
    fnKind,         \* "circle" or "polygon"; "none" before the first call
    fnCount,        \* the count sent in MISSION_COUNT
    fnStart,        \* time.time() when the call was made
    fnDeadline,     \* the call's `deadline`
    fnRecvStart,    \* when the pending recv_mission_msg was entered
    fnResult,       \* what the call returned: "none", "True", "False"
    fnAckAt,        \* when the call read a MISSION_ACK(ACCEPTED); Never if it has not
    fnSent,         \* records the call has enqueued, oldest first
    fnLastReq,      \* when the call last answered an item request; Never if none
    fnCalls,        \* fence uploads called so far
    \* --- the vehicle answering a download ---
    dvSent,         \* mission messages the vehicle has sent during the download
    \* --- MissionManager.start / pause ---
    msPc,           \* "idle", "sleep" (inside time.sleep(0.2) of start), "done"
    msOp,           \* "none", "start", "pause": the call in progress or returned
    msResult,       \* "none", "True", "False"
    msCalls,        \* number of start / pause calls made
    msFirstId,      \* id of the first command record the last call enqueued
    \* --- the worker loop under sustained load ---
    lvTracked,      \* position in cmdQueue of the record being followed; 0 if none
    \* --- command execution that may raise ---
    xcAlive,        \* the worker thread is still running
    xcFailed,       \* ids of the records whose execution raised
    \* --- _handle_message by source system ---
    rtTarget,       \* (target_system, target_component) of the connection
    rtTel,          \* the fields of self._telemetry the handled messages write
    rtParams,       \* self._params: name -> value, NoParam if absent
    rtInbox,        \* self._mission_msg_queue
    rtComponents,   \* the (system, component) pairs _register_component has seen
    rtLast,         \* the frame handled last
    rtCount,        \* number of frames handled
    \* --- set_mode calls and the mode the vehicle reports back ---
    mdAsked         \* the set_mode(name) calls made: [id, mode], oldest first

rcVars   == <<rcIn, rcOut>>
linkVars == <<cmdQueue, wire, workerPc, isArdupilot, mavType, nextId, executed, wsAlive>>
upVars   == <<connected, now, linkRx, missionInbox, missionStatus, upPc, upWaypoints,
              upDeadline, upRecvStart, upResult, upFirstEvent, upCalls, requestsSent>>
dlVars   == <<dlPc, dlCount, dlSeq, dlItems, dlAfterUpload>>
vehVars  == <<vehItems, vehExpected>>
telVars  == <<telLock, tel, telGen, hmPc, hmMsg, telCount, rdPc, rdNext, rdSnap,
              rdRaced, rdCount, ctlPc, ctlNext, ctlCount, bcState>>
stVars   == <<stQueue, stNow, stLast, stEvent, stCount>>
bcVars   == <<bcNow, bcDrone, bcSnap, bcLastGen, bcLastMission, bcLastFull,
              bcLastSend, bcOut, bcEmits, bcEmitAt, bcAtEmit, bcClient, bcEvents>>
\* the subsystems modelled after the status-text ring
regVars  == <<regConns, regCounter, regVehicles, regNames, regActive, regLinkVeh,
              regPending, regClosed, regEvent>>
prmVars  == <<prmQueue, prmWire, prmCall, prmCalls>>
hbVars   == <<hbConn, hbMsg, hbTel, hbCount>>
hsVars   == <<hsPc, hsNow, hsRecvStart, hsLastHbSent, hsComponents, hsTarget, hsSeen>>
pfVars   == <<pfIn, pfOut>>
mxVars   == <<upSent, dlDeadline, dlRecvStart>>
\* the groups added after the profiles
fnVars   == <<fnPc, fnKind, fnCount, fnStart, fnDeadline, fnRecvStart, fnResult,
              fnAckAt, fnSent, fnLastReq, fnCalls>>
dvVars   == <<dvSent>>
msVars   == <<msPc, msOp, msResult, msCalls, msFirstId>>
lvVars   == <<lvTracked>>
xcVars   == <<xcAlive, xcFailed>>
rtVars   == <<rtTarget, rtTel, rtParams, rtInbox, rtComponents, rtLast, rtCount>>
mdVars   == <<mdAsked>>
tailVars == <<msVars, lvVars, xcVars, rtVars, mdVars>>
lateNoMx == <<fnVars, dvVars, tailVars>>
lateVars == <<mxVars, lateNoMx>>
extNoMx  == <<bcVars, regVars, prmVars, hbVars, hsVars, pfVars>>
extVars  == <<extNoMx, lateVars>>
vars     == <<rcVars, linkVars, upVars, dlVars, vehVars, telVars, stVars, extVars>>

----------------------------------------------------------------------------
(* Generic helpers *)

Min(a, b) == IF a < b THEN a ELSE b
Max(a, b) == IF a > b THEN a ELSE b

\* Python's int() on a float truncates toward zero; x is given in tenths.
TruncTenths(x) == IF x >= 0 THEN x \div 10 ELSE -((-x) \div 10)

----------------------------------------------------------------------------
(* Python floats (IEEE 754 binary64) and the float32 fields of the wire,   *)
(* computed exactly.  A natural number of up to BigLimbs * 14 bits is a    *)
(* tuple of BigLimbs limbs in base 2^14, least significant first; a finite *)
(* float is a sign, a 53-bit mantissa and a binary exponent.               *)

LimbBits == 14
LimbBase == 16384
BigLimbs == 10

BigZero == [i \in 1..BigLimbs |-> 0]

\* a machine integer 0 <= n < 2^31 as a big number, and back
BigOfInt(n) ==
    [i \in 1..BigLimbs |->
        CASE i = 1 -> n % LimbBase
          [] i = 2 -> (n \div LimbBase) % LimbBase
          [] i = 3 -> n \div (LimbBase * LimbBase)
          [] OTHER -> 0]

IntOfBig(a) == a[1] + a[2] * LimbBase + a[3] * LimbBase * LimbBase

RECURSIVE MulCarry(_, _, _)
MulCarry(a, k, i) ==
    IF i = 0 THEN 0 ELSE (a[i] * k + MulCarry(a, k, i - 1)) \div LimbBase

\* a * k for 0 <= k < 2^16
BigMulSmall(a, k) ==
    [i \in 1..BigLimbs |-> (a[i] * k + MulCarry(a, k, i - 1)) % LimbBase]

RECURSIVE DivRem(_, _, _)
DivRem(a, k, i) ==
    IF i > BigLimbs THEN 0 ELSE (DivRem(a, k, i + 1) * LimbBase + a[i]) % k

\* floor(a / k) and a mod k for 0 < k < 2^16
BigDivSmall(a, k) ==
    [q |-> [i \in 1..BigLimbs |-> (DivRem(a, k, i + 1) * LimbBase + a[i]) \div k],
     r |-> DivRem(a, k, 1)]

LimbsUp(a, u)   == [i \in 1..BigLimbs |-> IF i > u THEN a[i - u] ELSE 0]
LimbsDown(a, u) == [i \in 1..BigLimbs |-> IF i + u <= BigLimbs THEN a[i + u] ELSE 0]

BigShl(a, s) == BigMulSmall(LimbsUp(a, s \div LimbBits), 2 ^ (s % LimbBits))
BigShr(a, s) == BigDivSmall(LimbsDown(a, s \div LimbBits), 2 ^ (s % LimbBits)).q

BigInc(a) ==
    [i \in 1..BigLimbs |->
        IF \A j \in 1..(i - 1) : a[j] = LimbBase - 1
        THEN (a[i] + 1) % LimbBase ELSE a[i]]

RECURSIVE AddCarry(_, _, _)
AddCarry(a, b, i) ==
    IF i = 0 THEN 0 ELSE (a[i] + b[i] + AddCarry(a, b, i - 1)) \div LimbBase

BigAdd(a, b) ==
    [i \in 1..BigLimbs |-> (a[i] + b[i] + AddCarry(a, b, i - 1)) % LimbBase]

RECURSIVE SubBorrow(_, _, _)
SubBorrow(a, b, i) ==
    IF i = 0 THEN 0
    ELSE IF a[i] - b[i] - SubBorrow(a, b, i - 1) < 0 THEN 1 ELSE 0

\* a - b for a >= b
BigSub(a, b) ==
    [i \in 1..BigLimbs |->
        (a[i] - b[i] - SubBorrow(a, b, i - 1) + LimbBase) % LimbBase]

BigLess(a, b) ==
    \E i \in 1..BigLimbs :
        a[i] < b[i] /\ \A j \in (i + 1)..BigLimbs : a[j] = b[j]

BigLeq(a, b) == a = b \/ BigLess(a, b)

BigPow2(n) ==
    [i \in 1..BigLimbs |-> IF i = n \div LimbBits + 1 THEN 2 ^ (n % LimbBits) ELSE 0]

\* number of bits of a: 0 for zero
BigBitLen(a) ==
    IF a = BigZero THEN 0
    ELSE LET h == CHOOSE i \in 1..BigLimbs :
                      a[i] # 0 /\ \A j \in (i + 1)..BigLimbs : a[j] = 0
             b == CHOOSE j \in 1..LimbBits : 2 ^ (j - 1) <= a[h] /\ a[h] < 2 ^ j
         IN  LimbBits * (h - 1) + b

\* a (followed by a nonzero tail if sticky) rounded to p bits, to nearest,
\* ties to even: the result is m * 2^sh
BigRound(a, p, sticky) ==
    LET s == BigBitLen(a) - p
    IN  IF s <= 0 THEN [m |-> a, sh |-> 0]
        ELSE LET q1    == BigShr(a, s - 1)
                 q     == BigShr(q1, 1)
                 guard == q1[1] % 2 = 1
                 low   == sticky \/ BigShl(q1, s - 1) # a
                 up    == guard /\ (low \/ q[1] % 2 = 1)
             IN  [m |-> IF up THEN BigInc(q) ELSE q, sh |-> s]

F64Bits == 53
F32Bits == 24

\* the float of sign neg and magnitude a * 2^e (a of at most 54 bits):
\* mantissa normalised to exactly 53 bits, zero unsigned
Float(neg, a, e) ==
    LET n == BigBitLen(a)
    IN  IF n = 0 THEN [neg |-> FALSE, m |-> BigZero, e |-> 0]
        ELSE IF n <= F64Bits
        THEN [neg |-> neg, m |-> BigShl(a, F64Bits - n), e |-> e - (F64Bits - n)]
        ELSE [neg |-> neg, m |-> BigShr(a, n - F64Bits), e |-> e + (n - F64Bits)]

FracScale == 84     \* fraction bits kept by the decimal conversion

\* float(): the double nearest to whole + frac8 / 10^8
\* (0 <= whole < 2^28, 0 <= frac8 < 10^8)
FloatOfDec8(neg, whole, frac8) ==
    LET d1 == BigDivSmall(LimbsUp(BigOfInt(frac8), FracScale \div LimbBits), 10000)
        d2 == BigDivSmall(d1.q, 10000)
        w  == BigOfInt(whole)
        q  == [i \in 1..BigLimbs |->
                  IF i <= FracScale \div LimbBits THEN d2.q[i]
                  ELSE w[i - FracScale \div LimbBits]]
        r  == BigRound(q, F64Bits, d1.r # 0 \/ d2.r # 0)
    IN  Float(neg, r.m, r.sh - FracScale)

E7 == 10000000

\* x * 1e7 in float arithmetic: the exact product, rounded once
FloatMulE7(x) ==
    LET r == BigRound(BigMulSmall(BigMulSmall(x.m, 3125), 3200), F64Bits, FALSE)
    IN  Float(x.neg, r.m, x.e + r.sh)

\* int(x): truncation toward zero (|x| < 2^31)
FloatTrunc(x) ==
    LET mag == IF x.e >= 0 THEN IntOfBig(BigShl(x.m, x.e))
               ELSE IntOfBig(BigShr(x.m, -x.e))
    IN  IF x.neg THEN -mag ELSE mag

\* n / 1e7 for an int n
IntDivE7(n) ==
    LET a == IF n < 0 THEN -n ELSE n
    IN  FloatOfDec8(n < 0, a \div E7, (a % E7) * 10)

\* a Python float packed into a float32 field and unpacked again
FloatToF32(x) ==
    LET r == BigRound(x.m, F32Bits, FALSE)
    IN  Float(x.neg, r.m, x.e + r.sh)

FloatOfInt(n) == Float(n < 0, BigOfInt(IF n < 0 THEN -n ELSE n), 0)

MaxAlign == 58

\* |a - b| <= 1e-7 in exact arithmetic
WithinE7(a, b) ==
    LET za == a.m = BigZero
        zb == b.m = BigZero
        e  == IF za THEN b.e ELSE IF zb THEN a.e ELSE IF a.e < b.e THEN a.e ELSE b.e
        am == IF za THEN BigZero ELSE BigShl(a.m, a.e - e)
        bm == IF zb THEN BigZero ELSE BigShl(b.m, b.e - e)
        d  == IF a.neg = b.neg \/ za \/ zb
              THEN (IF BigLess(am, bm) THEN BigSub(bm, am) ELSE BigSub(am, bm))
              ELSE BigAdd(am, bm)
        s  == BigMulSmall(BigMulSmall(d, 3125), 3200)
    IN  IF za /\ zb THEN TRUE
        ELSE IF ~za /\ ~zb /\ (a.e - b.e > MaxAlign \/ b.e - a.e > MaxAlign) THEN FALSE
        ELSE IF e >= 0 THEN d = BigZero
        ELSE BigLeq(s, BigPow2(-e))

----------------------------------------------------------------------------
(* Python values that can appear as elements of a channel list.           *)
(* Every value is a record of the same shape: k is the Python type,       *)
(* n an integer payload (int value, bool as 0/1, float in tenths),        *)
(* s the characters of a str.                                             *)

PyInt(n)      == [k |-> "int",   n |-> n, s |-> <<>>]
PyBool(b)     == [k |-> "bool",  n |-> IF b THEN 1 ELSE 0, s |-> <<>>]
PyFloat10(t)  == [k |-> "float", n |-> t, s |-> <<>>]   \* t tenths
PyNan         == [k |-> "nan",   n |-> 0, s |-> <<>>]   \* float('nan')
PyInf         == [k |-> "inf",   n |-> 1, s |-> <<>>]   \* float('inf')
PyNegInf      == [k |-> "inf",   n |-> -1, s |-> <<>>]  \* float('-inf')
PyStr(s)      == [k |-> "str",   n |-> 0, s |-> s]
PyNone        == [k |-> "none",  n |-> 0, s |-> <<>>]

Digits == {"0", "1", "2", "3", "4", "5", "6", "7", "8", "9"}

DigitVal(c) ==
    CASE c = "0" -> 0 [] c = "1" -> 1 [] c = "2" -> 2 [] c = "3" -> 3
      [] c = "4" -> 4 [] c = "5" -> 5 [] c = "6" -> 6 [] c = "7" -> 7
      [] c = "8" -> 8 [] c = "9" -> 9

RECURSIVE DigitsVal(_, _)
DigitsVal(s, acc) ==
    IF s = <<>> THEN acc ELSE DigitsVal(Tail(s), 10 * acc + DigitVal(Head(s)))

StrBody(s) == IF s # <<>> /\ Head(s) \in {"-", "+"} THEN Tail(s) ELSE s

\* int(str) accepts an optional sign followed by decimal digits
IsIntLiteral(s) ==
    /\ StrBody(s) # <<>>
    /\ \A i \in 1..Len(StrBody(s)) : StrBody(s)[i] \in Digits

StrToInt(s) ==
    IF s # <<>> /\ Head(s) = "-" THEN -DigitsVal(StrBody(s), 0)
    ELSE DigitsVal(StrBody(s), 0)

\* Python int(val): the outcome is either a value or the exception raised.
PyIntOf(val) ==
    CASE val.k = "int"   -> [exc |-> "none", v |-> val.n]
      [] val.k = "bool"  -> [exc |-> "none", v |-> val.n]
      [] val.k = "float" -> [exc |-> "none", v |-> TruncTenths(val.n)]
      [] val.k = "nan"   -> [exc |-> "ValueError", v |-> 0]
      [] val.k = "inf"   -> [exc |-> "OverflowError", v |-> 0]
      [] val.k = "str"   -> IF IsIntLiteral(val.s)
                            THEN [exc |-> "none", v |-> StrToInt(val.s)]
                            ELSE [exc |-> "ValueError", v |-> 0]
      [] val.k = "none"  -> [exc |-> "TypeError", v |-> 0]

----------------------------------------------------------------------------
(* DroneConnection._validate_rc_channels                                   *)

RcChannels == 8
PwmMin     == 1000
PwmMax     == 2000

\* the body of the for loop for one element: try int(); except (TypeError,
\* ValueError) -> 0; nonzero values are clamped to the PWM range
RcElement(val) ==
    LET r == PyIntOf(val)
        v == IF r.exc \in {"TypeError", "ValueError"} THEN 0 ELSE r.v
    IN  IF v # 0 THEN Max(PwmMin, Min(PwmMax, v)) ELSE v

\* an exception the except clause does not name leaves the function
RcElementRaises(val) == PyIntOf(val).exc \notin {"none", "TypeError", "ValueError"}

Truncated(channels) == SubSeq(channels, 1, Min(Len(channels), RcChannels))

ValidateRcChannels(channels) ==
    LET head == Truncated(channels)
    IN  IF \E i \in 1..Len(head) : RcElementRaises(head[i])
        THEN [raised |-> TRUE, value |-> <<>>]
        ELSE [raised |-> FALSE,
              value  |-> [i \in 1..RcChannels |->
                             IF i <= Len(head) THEN RcElement(head[i]) ELSE 0]]

----------------------------------------------------------------------------
(* Specification SpecRc: the validator applied to lists drawn from a       *)
(* bounded family: any length up to MaxRcLen, one position holding any of  *)
(* the sample values, the other positions a filler value; and the list of  *)
(* the documented example.                                                 *)

MaxRcLen == 10

RcSampleValues ==
    { PyInt(0), PyInt(1), PyInt(-1), PyInt(-50), PyInt(999), PyInt(1000),
      PyInt(1200), PyInt(1500), PyInt(2000), PyInt(2001), PyInt(3000),
      PyInt(65535), PyBool(TRUE), PyBool(FALSE),
      PyFloat10(15007), PyFloat10(5), PyFloat10(-5), PyFloat10(9999),
      PyNan, PyInf, PyNegInf, PyNone,
      PyStr(<<"1", "5", "0", "0">>), PyStr(<<"b", "a", "d">>),
      PyStr(<<"a", "b", "c">>), PyStr(<<"-", "5", "0">>),
      PyStr(<<"1", "5", "0", "0", ".", "7">>), PyStr(<<>>), PyStr(<<"0">>) }

RcFillers == { PyInt(1500), PyInt(0), PyStr(<<"b", "a", "d">>) }

RcExampleInput ==
    << PyInt(1500), PyStr(<<"b", "a", "d">>), PyNone, PyInt(0), PyInt(1200),
       PyInt(3000), PyInt(-50) >>

RcExampleOutput == <<1500, 0, 0, 0, 1200, 2000, 1000, 0>>

RcInputs ==
    { [i \in 1..n |-> IF i = p THEN v ELSE f] :
          n \in 0..MaxRcLen, p \in 1..MaxRcLen, v \in RcSampleValues, f \in RcFillers }
    \cup { RcExampleInput }

NoCall == [raised |-> FALSE, value |-> <<-1>>]

RcIdle == rcIn = <<>> /\ rcOut = NoCall

RcStart == rcIn \in RcInputs /\ rcOut = NoCall

\* one call of DroneConnection._validate_rc_channels(rcIn)
CallValidateRc ==
    /\ rcOut = NoCall
    /\ rcOut' = ValidateRcChannels(rcIn)
    /\ UNCHANGED rcIn

LinkIdle ==
    /\ cmdQueue = <<>> /\ wire = <<>> /\ workerPc = "top" /\ isArdupilot = TRUE
    /\ mavType = 2
    /\ nextId = 1 /\ executed = <<>> /\ wsAlive = TRUE

\* the attribute is absent from the instance
NoAttr == -1

\* the fields of TelemetryState that the modelled updates write, in the
\* order to_dict reads them
TelFields ==
    <<"roll", "pitch", "yaw", "rollspeed", "pitchspeed", "yawspeed",
      "lat", "lon", "alt", "alt_msl", "autopilot", "platform_type">>

TelFieldSet == { TelFields[i] : i \in 1..Len(TelFields) }

\* TelemetryState(): every field at its default
TelDefaults == [f \in TelFieldSet |-> 0]

NoTelMsg == [type |-> "none", val |-> 0]

\* DroneConnection.__init__: lock free, fresh TelemetryState, and no
\* telemetry_generation attribute
TelIdle ==
    /\ telLock = "free" /\ tel = TelDefaults /\ telGen = NoAttr
    /\ hmPc = 0 /\ hmMsg = NoTelMsg /\ telCount = 0
    /\ rdPc = "idle" /\ rdNext = 1 /\ rdSnap = TelDefaults /\ rdRaced = FALSE
    /\ rdCount = 0
    /\ ctlPc = "idle" /\ ctlNext = 1 /\ ctlCount = 0
    /\ bcState = "run"

StKeys == { <<4, "A">>, <<6, "A">>, <<4, "B">> }

Never == -1

NoStEvent == [key |-> <<0, "">>, time |-> 0, prev |-> Never, enqueued |-> FALSE]

StIdle ==
    /\ stQueue = <<>> /\ stNow = 0 /\ stLast = [k \in StKeys |-> Never]
    /\ stEvent = NoStEvent /\ stCount = 0

\* a dict without keys
\* --- registry values ---
Sysids   == {1, 2}
MaxConns == 2
Links    == 1 .. MaxConns + 1

\* vehicle ids: str(sysid) is (ShortId, sysid), f"{conn_id}s{sysid}" is (n, sysid)
\* for conn_id "conn<n>" and (UnknownConn, sysid) for the conn_id "c?"
ShortId     == -1
UnknownConn == 0
NoVid       == [conn |-> -2, sysid |-> 0]
Short(sysid)          == [conn |-> ShortId, sysid |-> sysid]
Prefixed(conn, sysid) == [conn |-> conn, sysid |-> sysid]

NoRegEvent == [op |-> "none"]

RegIdle ==
    /\ regConns = {} /\ regCounter = 0 /\ regVehicles = <<>>
    /\ regNames = [o \in Links \X Sysids |-> NoVid]
    /\ regActive = NoVid
    /\ regLinkVeh = [l \in Links |-> <<>>]
    /\ regPending = 0 /\ regClosed = {}
    /\ regEvent = NoRegEvent

NoPrmCall == [status |-> "none"]

PrmIdle ==
    /\ prmQueue = <<>> /\ prmWire = <<>> /\ prmCall = NoPrmCall /\ prmCalls = 0

\* a mode string: a table name, or a prefix followed by the numbers that
\* the f-string renders in decimal
ModeName(text)      == [text |-> text, n |-> <<>>]
ModeFormat(text, n) == [text |-> text, n |-> n]

NoHeartbeat == [base_mode |-> -1]
HbFresh     == [armed |-> FALSE, mode |-> ModeName("")]

HbIdle ==
    /\ hbConn = [connected |-> FALSE, is_ardupilot |-> FALSE, mav_type |-> 0]
    /\ hbMsg = NoHeartbeat /\ hbTel = HbFresh /\ hbCount = 0

HsIdle ==
    /\ hsPc = "idle" /\ hsNow = 0 /\ hsRecvStart = 0 /\ hsLastHbSent = Never
    /\ hsComponents = <<>> /\ hsTarget = NoHeartbeat /\ hsSeen = <<>>

NoProfile == [profile_name |-> "none"]

PfIdle == pfIn = 0 /\ pfOut = NoProfile

\* loop.time() when the broadcaster task starts: a monotonic clock far from 0
BcStart == 100

EmptyDict == <<>>

\* TelemetryState() as the broadcaster's drone starts: disarmed, at rest,
\* no voltage reading, no heartbeat seen; groundspeed in mm/s, voltage in
\* mV, last_heartbeat in ticks of time.time() (0: never)
FreshDrone ==
    [armed |-> FALSE, groundspeed |-> 0, voltage |-> 0, last_heartbeat |-> 0,
     gen |-> 0]

\* telemetry_broadcast before its first iteration: all tracking dicts empty
BcIdle ==
    /\ bcNow = BcStart /\ bcDrone = FreshDrone /\ bcSnap = EmptyDict
    /\ bcLastGen = -1 /\ bcLastMission = "None" /\ bcLastFull = 0
    /\ bcLastSend = 0 /\ bcOut = EmptyDict /\ bcEmits = 0 /\ bcEmitAt = 0
    /\ bcAtEmit = FreshDrone /\ bcClient = EmptyDict /\ bcEvents = 0

\* the mission engine's records of what it sent and its read windows
MxIdle == upSent = <<>> /\ dlDeadline = 0 /\ dlRecvStart = 0

\* no fence upload has been called
FnIdle ==
    /\ fnPc = "idle" /\ fnKind = "none" /\ fnCount = 0 /\ fnStart = 0
    /\ fnDeadline = 0 /\ fnRecvStart = 0 /\ fnResult = "none"
    /\ fnAckAt = Never /\ fnSent = <<>> /\ fnLastReq = Never /\ fnCalls = 0

DvIdle == dvSent = 0

MsIdle ==
    /\ msPc = "idle" /\ msOp = "none" /\ msResult = "none"
    /\ msCalls = 0 /\ msFirstId = 0

LvIdle == lvTracked = 0

XcIdle == xcAlive = TRUE /\ xcFailed = {}

NoParam == -1
RtParamNames == {"WPNAV_SPEED"}
RtTelFields == {"armed", "roll", "lat", "fix_type", "heading", "remaining", "mission_seq"}
NoFrame == [type |-> "none", src |-> 0, comp |-> 0, val |-> 0]

RtIdle ==
    /\ rtTarget = [sys |-> 1, comp |-> 1]
    /\ rtTel = [f \in RtTelFields |-> 0]
    /\ rtParams = [n \in RtParamNames |-> NoParam]
    /\ rtInbox = <<>> /\ rtComponents = {}
    /\ rtLast = NoFrame /\ rtCount = 0

\* no set_mode call has been made
MdIdle == mdAsked = <<>>

LateIdle ==
    MxIdle /\ FnIdle /\ DvIdle /\ MsIdle /\ LvIdle /\ XcIdle /\ RtIdle /\ MdIdle

ExtIdle == BcIdle /\ RegIdle /\ PrmIdle /\ HbIdle /\ HsIdle /\ PfIdle /\ LateIdle

\* the mission engine, the download and the vehicle before any operation
EngineIdle ==
    /\ now = 0 /\ linkRx = <<>> /\ missionInbox = <<>> /\ missionStatus = "idle"
    /\ upPc = "idle" /\ upWaypoints = <<>> /\ upDeadline = 0 /\ upRecvStart = 0
    /\ upResult = "none" /\ upFirstEvent = "none" /\ upCalls = 0
    /\ requestsSent = 0
    /\ dlPc = "idle" /\ dlCount = 0 /\ dlSeq = 0 /\ dlItems = <<>>
    /\ dlAfterUpload = FALSE
    /\ vehItems = <<>> /\ vehExpected = 0
    /\ TelIdle /\ StIdle /\ ExtIdle

RcNext == CallValidateRc /\ UNCHANGED <<linkVars, upVars, dlVars, vehVars, telVars, stVars, extVars>>

RcInit == RcStart /\ LinkIdle /\ connected = FALSE /\ EngineIdle

SpecRc == RcInit /\ [][RcNext]_vars

\* --- C1 ---
\* C1: for every input list the validator returns a list of exactly 8
\* integers, each of which is 0 or within [1000, 2000].
C1_ValidatorReturnsEightValid ==
    rcOut # NoCall =>
        /\ ~rcOut.raised
        /\ Len(rcOut.value) = 8
        /\ \A i \in 1..Len(rcOut.value) :
              rcOut.value[i] = 0 \/ (1000 <= rcOut.value[i] /\ rcOut.value[i] <= 2000)

\* --- C2 ---
\* a non-numeric element: None, a str that is no integer literal, NaN
NonNumeric(val) ==
    \/ val.k \in {"none", "nan"}
    \/ val.k = "str" /\ ~IsIntLiteral(val.s)

\* the integer a numeric element stands for (an infinite float lies beyond
\* every integer)
CoercedInt(val) ==
    CASE val.k \in {"int", "bool"} -> val.n
      [] val.k = "float" -> TruncTenths(val.n)
      [] val.k = "str"   -> StrToInt(val.s)
      [] val.k = "inf"   -> val.n * 1000000

ClaimedRcElement(val) ==
    IF NonNumeric(val) THEN 0
    ELSE IF CoercedInt(val) = 0 THEN 0
    ELSE IF CoercedInt(val) < 1000 THEN 1000
    ELSE IF CoercedInt(val) > 2000 THEN 2000
    ELSE CoercedInt(val)

\* C2: output element i is 0 for a non-numeric element, 0 for an element that
\* coerces to 0, the clamped integer otherwise; positions beyond the input
\* are 0; elements from index 8 on are discarded; the documented example
\* gives the documented output.
C2_ElementwiseRule ==
    rcOut # NoCall =>
        /\ ~rcOut.raised
        /\ Len(rcOut.value) = 8
        /\ \A i \in 1..8 :
              rcOut.value[i] = IF i <= Len(rcIn) THEN ClaimedRcElement(rcIn[i]) ELSE 0
        /\ (rcIn = RcExampleInput => rcOut.value = RcExampleOutput)

----------------------------------------------------------------------------
(* The link: command queue, entry points, worker loop (drone.py, main.py)  *)

\* A command record: the (cmd_type, kwargs) pair of _enqueue_cmd, with the
\* serial number it was enqueued under and the entry point it came through.
Cmd(id, type, via, channels, mode, axes, item) ==
    [id |-> id, type |-> type, via |-> via, channels |-> channels,
     mode |-> mode, axes |-> axes, item |-> item]

NoAxes == [x |-> 0, y |-> 0, z |-> 0, r |-> 0]

Float0 == Float(FALSE, BigZero, 0)

\* the fields of a mission protocol message (kwargs of the mission_*
\* records, fields of the MISSION_* messages); unused fields are 0
NoItem ==
    [seq |-> 0, count |-> 0, ack |-> 0, mission_type |-> 0, enable |-> 0,
     frame |-> 0, command |-> 0,
     param1 |-> Float0, param2 |-> Float0, param3 |-> Float0, param4 |-> Float0,
     x |-> 0, y |-> 0, z |-> Float0]

\* queue.Queue: put appends, get_nowait takes the oldest record
QueuePut(q, rec) == Append(q, rec)
QueueGetLifo(q) == q[Len(q)]
QueueGet(q)     == Head(q)
QueueRest(q)    == Tail(q)

\* DroneConnection._enqueue_cmd
EnqueueCmd(type, via, channels, mode, axes, item) ==
    /\ cmdQueue' = QueuePut(cmdQueue, Cmd(nextId, type, via, channels, mode, axes, item))
    /\ nextId' = nextId + 1

\* pwm_to_manual inside rc_override: int((pwm - 1500) / 500 * 1000)
PwmToManual(pwm) == 2 * (pwm - 1500)

\* throttle of rc_override: int((channels[2] - 1000) / 1000 * 1000)
ThrottleToManual(pwm) == pwm - 1000

\* a list of integers as a list of Python ints
PyInts(values) == [i \in 1..Len(values) |-> PyInt(values[i])]

\* DroneConnection.rc_override(channels): validates, then enqueues an
\* rc_override record (ArduPilot) or a manual_control record (PX4); an
\* exception of the validator reaches the caller and nothing is enqueued.
RcOverrideCall(channels, via) ==
    LET r == ValidateRcChannels(channels)
    IN  IF r.raised THEN UNCHANGED <<cmdQueue, nextId>>
        ELSE IF isArdupilot
        THEN EnqueueCmd("rc_override", via, PyInts(r.value), "", NoAxes, NoItem)
        ELSE EnqueueCmd("manual_control", via, <<>>, "",
                        [x |-> PwmToManual(r.value[2]), y |-> PwmToManual(r.value[1]),
                         z |-> ThrottleToManual(r.value[3]), r |-> PwmToManual(r.value[4])],
                        NoItem)

MaxCmds == 3

\* the channel lists the entry points are exercised with
RcRawLists ==
    { << PyInt(1500), PyInt(3000), PyInt(-50), PyInt(0), PyStr(<<"b", "a", "d">>),
         PyNone, PyInt(999), PyFloat10(20015), PyInt(1200) >>,
      << PyInf >>,
      << >> }

CanEnqueue == nextId <= MaxCmds

\* a direct call of drone.rc_override(channels)
DirectRcOverride ==
    /\ CanEnqueue
    /\ \E ch \in RcRawLists : RcOverrideCall(ch, "direct")
    /\ UNCHANGED <<wire, workerPc, isArdupilot, mavType, executed, wsAlive>>

\* websocket_endpoint on one rc_override frame: the inline validation of
\* main.py (a copy of the validator's loop), then drone.rc_override.  An
\* OverflowError is not caught by `except json.JSONDecodeError` and ends
\* the handler.
WsInlineValidate(raw) == ValidateRcChannels(raw)

WsRcOverrideFrame ==
    /\ CanEnqueue
    /\ wsAlive
    /\ \E raw \in RcRawLists :
          IF raw = <<>>
          THEN UNCHANGED <<cmdQueue, nextId, wsAlive>>
          ELSE LET v == WsInlineValidate(raw)
               IN  IF v.raised
                   THEN wsAlive' = FALSE /\ UNCHANGED <<cmdQueue, nextId>>
                   ELSE /\ RcOverrideCall(PyInts(v.value), "ws")
                        /\ UNCHANGED wsAlive
    /\ UNCHANGED <<wire, workerPc, isArdupilot, mavType, executed>>

\* drone.send_mission_cmd("rc_override", channels=...): a record put on the
\* queue as given, with no validation on the producer side
SendRawRcRecord ==
    /\ CanEnqueue
    /\ \E ch \in RcRawLists : EnqueueCmd("rc_override", "queue", ch, "", NoAxes, NoItem)
    /\ UNCHANGED <<wire, workerPc, isArdupilot, mavType, executed, wsAlive>>

\* drone.arm(), drone.disarm(), drone.set_mode(mode)
Arm ==
    /\ CanEnqueue
    /\ EnqueueCmd("arm", "direct", <<>>, "", NoAxes, NoItem)
    /\ UNCHANGED <<wire, workerPc, isArdupilot, mavType, executed, wsAlive>>

Disarm ==
    /\ CanEnqueue
    /\ EnqueueCmd("disarm", "direct", <<>>, "", NoAxes, NoItem)
    /\ UNCHANGED <<wire, workerPc, isArdupilot, mavType, executed, wsAlive>>

ModeNames == {"AUTO", "NO_SUCH_MODE"}

SetMode ==
    /\ CanEnqueue
    /\ \E m \in ModeNames : EnqueueCmd("set_mode", "direct", <<>>, m, NoAxes, NoItem)
    /\ UNCHANGED <<wire, workerPc, isArdupilot, mavType, executed, wsAlive>>

----------------------------------------------------------------------------
(* Mode tables (drone.py): each a sequence of <<key, name>> pairs in the   *)
(* order of the source dict.                                               *)

ARDUPILOT_COPTER_MODES ==
    << <<0, "STABILIZE">>, <<1, "ACRO">>, <<2, "ALT_HOLD">>, <<3, "AUTO">>,
       <<4, "GUIDED">>, <<5, "LOITER">>, <<6, "RTL">>, <<7, "CIRCLE">>,
       <<9, "LAND">>, <<11, "DRIFT">>, <<13, "SPORT">>, <<14, "FLIP">>,
       <<15, "AUTOTUNE">>, <<16, "POSHOLD">>, <<17, "BRAKE">>, <<18, "THROW">>,
       <<19, "AVOID_ADSB">>, <<20, "GUIDED_NOGPS">>, <<21, "SMART_RTL">> >>

ARDUPILOT_PLANE_MODES ==
    << <<0, "MANUAL">>, <<1, "CIRCLE">>, <<2, "STABILIZE">>, <<3, "TRAINING">>,
       <<4, "ACRO">>, <<5, "FBWA">>, <<6, "FBWB">>, <<7, "CRUISE">>,
       <<8, "AUTOTUNE">>, <<10, "AUTO">>, <<11, "RTL">>, <<12, "LOITER">>,
       <<13, "TAKEOFF">>, <<14, "AVOID_ADSB">>, <<15, "GUIDED">>,
       <<17, "QSTABILIZE">>, <<18, "QHOVER">>, <<19, "QLOITER">>,
       <<20, "QLAND">>, <<21, "QRTL">>, <<22, "QAUTOTUNE">>, <<23, "QACRO">>,
       <<24, "THERMAL">> >>

ARDUPILOT_ROVER_MODES ==
    << <<0, "MANUAL">>, <<1, "ACRO">>, <<2, "STEERING">>, <<3, "HOLD">>,
       <<4, "LOITER">>, <<5, "FOLLOW">>, <<6, "SIMPLE">>,
       <<10, "AUTO">>, <<11, "RTL">>, <<12, "SMART_RTL">>, <<15, "GUIDED">> >>

ARDUPILOT_SUB_MODES ==
    << <<0, "STABILIZE">>, <<1, "ACRO">>, <<2, "ALT_HOLD">>,
       <<3, "AUTO">>, <<4, "GUIDED">>, <<7, "CIRCLE">>,
       <<9, "SURFACE">>, <<16, "POSHOLD">>, <<19, "MANUAL">> >>

PX4_MODES ==
    << <<<<0, 0>>, "UNKNOWN">>,
       <<<<1, 0>>, "MANUAL">>, <<<<1, 1>>, "MANUAL">>,
       <<<<2, 0>>, "ALTCTL">>, <<<<2, 1>>, "ALTCTL">>,
       <<<<3, 0>>, "POSCTL">>, <<<<3, 1>>, "POSCTL">>,
       <<<<4, 0>>, "AUTO">>, <<<<4, 1>>, "AUTO_READY">>, <<<<4, 2>>, "AUTO_TAKEOFF">>,
       <<<<4, 3>>, "AUTO_LOITER">>, <<<<4, 4>>, "AUTO_MISSION">>,
       <<<<4, 5>>, "AUTO_RTL">>, <<<<4, 6>>, "AUTO_LAND">>,
       <<<<4, 7>>, "AUTO_RTGS">>, <<<<4, 8>>, "AUTO_FOLLOW">>,
       <<<<5, 0>>, "ACRO">>, <<<<6, 0>>, "OFFBOARD">>,
       <<<<7, 0>>, "STABILIZED">>, <<<<8, 0>>, "RATTITUDE">> >>

\* ardupilot_modes_for_type(mav_type)
ardupilot_modes_for_type(t) ==
    IF t \in {1, 19, 20, 21, 22, 23, 24, 25} THEN ARDUPILOT_PLANE_MODES
    ELSE IF t \in {10, 11} THEN ARDUPILOT_ROVER_MODES
    ELSE IF t = 12 THEN ARDUPILOT_SUB_MODES
    ELSE ARDUPILOT_COPTER_MODES

TableNames(table) == { table[i][2] : i \in 1..Len(table) }

\* {v: k for k, v in mode_map.items()}.get(name): the last key listed wins
LastKeyOf(table, name) ==
    table[CHOOSE i \in 1..Len(table) :
              /\ table[i][2] = name
              /\ \A j \in 1..Len(table) : table[j][2] = name => j <= i][1]

\* the PX4 reverse lookup keeps the first key listed for a name
FirstKeyOf(table, name) ==
    table[CHOOSE i \in 1..Len(table) :
              /\ table[i][2] = name
              /\ \A j \in 1..Len(table) : table[j][2] = name => j >= i][1]

\* custom_mode = (main_mode << 16) | (sub_mode << 24)
Px4CustomModeSwapped(key) == key[2] * 65536 + key[1] * 16777216
Px4CustomMode(key) == key[1] * 65536 + key[2] * 16777216

\* get_static_modes(): the names of the flavour's table, each once
get_static_modes(is_ardupilot, mav_type) ==
    IF is_ardupilot THEN TableNames(ardupilot_modes_for_type(mav_type))
    ELSE TableNames(PX4_MODES)

----------------------------------------------------------------------------
(* DroneConnection._execute_cmd: the messages one record puts on the wire  *)

WireMsg(name, cmd, ch, command, p1, p2, axes, item) ==
    [name |-> name, id |-> cmd.id, via |-> cmd.via, ch |-> ch,
     command |-> command, p1 |-> p1, p2 |-> p2, axes |-> axes, item |-> item]

\* the float fields of a MISSION_ITEM_INT are float32 on the wire
PackItem(item) ==
    [item EXCEPT !.param1 = FloatToF32(item.param1),
                 !.param2 = FloatToF32(item.param2),
                 !.param3 = FloatToF32(item.param3),
                 !.param4 = FloatToF32(item.param4),
                 !.z      = FloatToF32(item.z)]

MAV_CMD_COMPONENT_ARM_DISARM == 400
MAV_CMD_DO_SET_MODE == 176
MAV_MODE_FLAG_CUSTOM_MODE_ENABLED == 1
MAV_CMD_DO_FENCE_ENABLE == 207

\* the validation _execute_cmd applies to an rc_override record
ExecValidateNone(channels) ==
    [raised |-> FALSE, value |-> [i \in 1..Len(channels) |-> channels[i].n]]
ExecValidate(channels) == ValidateRcChannels(channels)

ExecuteCmd(cmd) ==
    CASE cmd.type = "arm" ->
            << WireMsg("COMMAND_LONG", cmd, <<>>, MAV_CMD_COMPONENT_ARM_DISARM, 1, 0, NoAxes, NoItem) >>
      [] cmd.type = "disarm" ->
            << WireMsg("COMMAND_LONG", cmd, <<>>, MAV_CMD_COMPONENT_ARM_DISARM, 0, 0, NoAxes, NoItem) >>
      [] cmd.type = "set_mode" ->
            IF isArdupilot
            THEN IF cmd.mode \in TableNames(ardupilot_modes_for_type(mavType))
                 THEN << WireMsg("SET_MODE", cmd, <<>>, 0,
                                 MAV_MODE_FLAG_CUSTOM_MODE_ENABLED,
                                 LastKeyOf(ardupilot_modes_for_type(mavType), cmd.mode),
                                 NoAxes, NoItem) >>
                 ELSE << >>
            ELSE IF cmd.mode \in TableNames(PX4_MODES)
                 THEN << WireMsg("COMMAND_LONG", cmd, <<>>, MAV_CMD_DO_SET_MODE,
                                 MAV_MODE_FLAG_CUSTOM_MODE_ENABLED,
                                 Px4CustomMode(FirstKeyOf(PX4_MODES, cmd.mode)),
                                 NoAxes, NoItem) >>
                 ELSE << >>
      [] cmd.type = "rc_override" ->
            LET r == ExecValidate(cmd.channels)
            IN  IF r.raised THEN << >>    \* caught by `except Exception`
                ELSE << WireMsg("RC_CHANNELS_OVERRIDE", cmd,
                                SubSeq(r.value, 1, Min(Len(r.value), 8)),
                                0, 0, 0, NoAxes, NoItem) >>
      [] cmd.type = "manual_control" ->
            << WireMsg("MANUAL_CONTROL", cmd, <<>>, 0, 0, 0, cmd.axes, NoItem) >>
      [] cmd.type = "mission_count" ->
            << WireMsg("MISSION_COUNT", cmd, <<>>, 0, 0, 0, NoAxes, cmd.item) >>
      [] cmd.type = "mission_item_int" ->
            << WireMsg("MISSION_ITEM_INT", cmd, <<>>, 0, 0, 0, NoAxes, PackItem(cmd.item)) >>
      [] cmd.type = "mission_request_list" ->
            << WireMsg("MISSION_REQUEST_LIST", cmd, <<>>, 0, 0, 0, NoAxes, cmd.item) >>
      [] cmd.type = "mission_request_int" ->
            << WireMsg("MISSION_REQUEST_INT", cmd, <<>>, 0, 0, 0, NoAxes, cmd.item) >>
      [] cmd.type = "mission_ack" ->
            << WireMsg("MISSION_ACK", cmd, <<>>, 0, 0, 0, NoAxes, cmd.item) >>
      [] cmd.type = "fence_enable" ->
            << WireMsg("COMMAND_LONG", cmd, <<>>, MAV_CMD_DO_FENCE_ENABLE,
                       cmd.item.enable, 0, NoAxes, NoItem) >>
      [] cmd.type = "set_current_mission" ->
            << WireMsg("MISSION_SET_CURRENT", cmd, <<>>, 0, 0, 0, NoAxes, cmd.item) >>

\* _run_loop, top of an iteration: the 1 Hz GCS heartbeat (addressed to no
\* vehicle and not a command; not recorded in `wire`)
WorkerTop ==
    /\ connected
    /\ workerPc = "top"
    /\ workerPc' = "drain"
    /\ UNCHANGED <<cmdQueue, wire, isArdupilot, mavType, nextId, executed, wsAlive>>

\* _run_loop, one turn of `while not self._cmd_queue.empty()`
WorkerDrainOne ==
    /\ connected
    /\ workerPc = "drain"
    /\ cmdQueue # <<>>
    /\ wire' = wire \o ExecuteCmd(QueueGet(cmdQueue))
    /\ executed' = Append(executed, QueueGet(cmdQueue).id)
    /\ cmdQueue' = QueueRest(cmdQueue)
    /\ UNCHANGED <<workerPc, isArdupilot, mavType, nextId, wsAlive>>

\* the drain loop ends when the queue is empty
WorkerDrainDone ==
    /\ connected
    /\ workerPc = "drain"
    /\ cmdQueue = <<>>
    /\ workerPc' = "recv"
    /\ UNCHANGED <<cmdQueue, wire, isArdupilot, mavType, nextId, executed, wsAlive>>

\* recv_match(blocking=True, timeout=0.05) returning None
WorkerRecvNone ==
    /\ connected
    /\ workerPc = "recv"
    /\ linkRx = <<>>
    /\ workerPc' = "top"
    /\ UNCHANGED <<cmdQueue, wire, isArdupilot, mavType, nextId, executed, wsAlive>>

----------------------------------------------------------------------------
(* Specification SpecLink: a connected link whose start-up requests have   *)
(* been drained; any thread may use the entry points while the worker      *)
(* loops.                                                                  *)

LinkMavTypes == {2, 10}

LinkInit ==
    /\ RcIdle
    /\ cmdQueue = <<>> /\ wire = <<>> /\ workerPc = "top"
    /\ isArdupilot \in BOOLEAN /\ mavType \in LinkMavTypes
    /\ nextId = 1 /\ executed = <<>> /\ wsAlive = TRUE
    /\ connected = TRUE /\ EngineIdle

LinkFrame == UNCHANGED <<rcVars, upVars, dlVars, vehVars, telVars, stVars, extVars>>

LinkNext ==
    \/ DirectRcOverride /\ LinkFrame
    \/ WsRcOverrideFrame /\ LinkFrame
    \/ SendRawRcRecord /\ LinkFrame
    \/ Arm /\ LinkFrame
    \/ Disarm /\ LinkFrame
    \/ SetMode /\ LinkFrame
    \/ WorkerTop /\ LinkFrame
    \/ WorkerDrainOne /\ LinkFrame
    \/ WorkerDrainDone /\ LinkFrame
    \/ WorkerRecvNone /\ LinkFrame

SpecLink == LinkInit /\ [][LinkNext]_vars

ValidPwm(v) == v = 0 \/ (1000 <= v /\ v <= 2000)

C3_WireRcOverrideValid ==
    \A i \in 1..Len(wire) :
        wire[i].name = "RC_CHANNELS_OVERRIDE" =>
            /\ Len(wire[i].ch) = 8
            /\ \A j \in 1..Len(wire[i].ch) : ValidPwm(wire[i].ch[j])

\* an RC_CHANNELS_OVERRIDE has been sent for each of the three entry points,
\* each from values that needed clamping
C3_Witness ==
    \A via \in {"ws", "direct", "queue"} :
        \E i \in 1..Len(wire) :
            /\ wire[i].name = "RC_CHANNELS_OVERRIDE"
            /\ wire[i].via = via
            /\ \E j \in 1..8 : wire[i].ch[j] \in {1000, 2000}

\* --- C7 ---
QueueIds == [i \in 1..Len(cmdQueue) |-> cmdQueue[i].id]

\* C7: the records are executed, and their messages emitted, in exactly the
\* order of enqueueing: the executed records followed by the queued ones are
\* the records 1, 2, 3, ... with none repeated or left out, and the messages
\* on the wire are in the order of their records.
C7_FifoOrder ==
    /\ executed \o QueueIds = [i \in 1..(nextId - 1) |-> i]
    /\ \A i, j \in 1..Len(wire) : i < j => wire[i].id < wire[j].id
    /\ \A i \in 1..Len(wire) : \E k \in 1..Len(executed) : executed[k] = wire[i].id

\* three records of different kinds, enqueued while the worker was busy,
\* have all been executed and two of them at least emitted
C7_Witness ==
    /\ Len(executed) = 3
    /\ Len(wire) >= 2
    /\ \E i, j \in 1..Len(wire) : wire[i].name # wire[j].name

----------------------------------------------------------------------------
(* Mission items (mission.py)                                              *)

\* ITEM_TYPE_COMMANDS as <<item_type, MAV_CMD>> pairs, in source order
ITEM_TYPE_COMMANDS ==
    << <<"waypoint", 16>>, <<"takeoff", 22>>, <<"loiter_unlim", 17>>,
       <<"loiter_turns", 18>>, <<"loiter_time", 19>>, <<"roi", 201>>,
       <<"land", 21>>, <<"do_jump", 177>>, <<"do_set_servo", 183>> >>

MAV_CMD_NAV_WAYPOINT == 16
MAV_FRAME_GLOBAL_INT == 5
MAV_FRAME_GLOBAL_RELATIVE_ALT_INT == 6
MAV_MISSION_ACCEPTED == 0
MAV_MISSION_ERROR == 1

\* ITEM_TYPE_COMMANDS.get(item_type, MAV_CMD_NAV_WAYPOINT)
CommandOf(item_type) ==
    IF \E i \in 1..Len(ITEM_TYPE_COMMANDS) : ITEM_TYPE_COMMANDS[i][1] = item_type
    THEN ITEM_TYPE_COMMANDS[CHOOSE i \in 1..Len(ITEM_TYPE_COMMANDS) :
                                ITEM_TYPE_COMMANDS[i][1] = item_type][2]
    ELSE MAV_CMD_NAV_WAYPOINT

\* COMMAND_ITEM_TYPES.get(command, "waypoint"), COMMAND_ITEM_TYPES being
\* {v: k for k, v in ITEM_TYPE_COMMANDS.items()}
ItemTypeOf(command) ==
    IF \E i \in 1..Len(ITEM_TYPE_COMMANDS) : ITEM_TYPE_COMMANDS[i][2] = command
    THEN ITEM_TYPE_COMMANDS[CHOOSE i \in 1..Len(ITEM_TYPE_COMMANDS) :
              /\ ITEM_TYPE_COMMANDS[i][2] = command
              /\ \A j \in 1..Len(ITEM_TYPE_COMMANDS) :
                    ITEM_TYPE_COMMANDS[j][2] = command => j <= i][1]
    ELSE "waypoint"

\* the Waypoint dataclass; the numeric fields are Python floats
Waypoint(lat, lon, alt, item_type, param1, param2, param3, param4) ==
    [lat |-> lat, lon |-> lon, alt |-> alt, item_type |-> item_type,
     param1 |-> param1, param2 |-> param2, param3 |-> param3, param4 |-> param4]

\* int(deg * 1e7)
DegToE7(deg) == FloatTrunc(FloatMulE7(deg))

\* _send_mission_item: waypoints[0] or waypoints[seq - 1] raises IndexError
\* when the list has no such element
SendItemRaises(seq, waypoints) ==
    IF seq = 0 THEN waypoints = <<>> ELSE seq > Len(waypoints)

\* _send_mission_item with the home item at the first waypoint's altitude
ItemKwargsHomeAtAlt(seq, waypoints) ==
    LET wp == waypoints[IF seq = 0 THEN 1 ELSE seq]
    IN  [NoItem EXCEPT !.seq = seq,
                       !.frame = IF seq = 0 THEN MAV_FRAME_GLOBAL_INT
                                 ELSE MAV_FRAME_GLOBAL_RELATIVE_ALT_INT,
                       !.command = IF seq = 0 THEN MAV_CMD_NAV_WAYPOINT
                                   ELSE CommandOf(wp.item_type),
                       !.param1 = IF seq = 0 THEN Float0 ELSE wp.param1,
                       !.param2 = IF seq = 0 THEN Float0 ELSE wp.param2,
                       !.param3 = IF seq = 0 THEN Float0 ELSE wp.param3,
                       !.param4 = IF seq = 0 THEN Float0 ELSE wp.param4,
                       !.x = DegToE7(wp.lat),
                       !.y = DegToE7(wp.lon),
                       !.z = wp.alt]

\* _send_mission_item: the kwargs of the mission_item_int record
ItemKwargs(seq, waypoints) ==
    IF seq = 0
    THEN [NoItem EXCEPT !.seq = 0,
                        !.frame = MAV_FRAME_GLOBAL_INT,
                        !.command = MAV_CMD_NAV_WAYPOINT,
                        !.x = DegToE7(waypoints[1].lat),
                        !.y = DegToE7(waypoints[1].lon)]
    ELSE LET wp == waypoints[seq]
         IN  [NoItem EXCEPT !.seq = seq,
                            !.frame = MAV_FRAME_GLOBAL_RELATIVE_ALT_INT,
                            !.command = CommandOf(wp.item_type),
                            !.param1 = wp.param1, !.param2 = wp.param2,
                            !.param3 = wp.param3, !.param4 = wp.param4,
                            !.x = DegToE7(wp.lat),
                            !.y = DegToE7(wp.lon),
                            !.z = wp.alt]

\* a mission protocol message received from the vehicle
MissionMsg(type, item) == [type |-> type, item |-> item]

MissionRequestInt(seq) == MissionMsg("MISSION_REQUEST_INT", [NoItem EXCEPT !.seq = seq])
MissionRequest(seq)    == MissionMsg("MISSION_REQUEST", [NoItem EXCEPT !.seq = seq])
MissionAck(type)       == MissionMsg("MISSION_ACK", [NoItem EXCEPT !.ack = type])
MissionCount(count)    == MissionMsg("MISSION_COUNT", [NoItem EXCEPT !.count = count])

----------------------------------------------------------------------------
(* MissionManager.upload (mission.py)                                      *)

UploadTimeout == 30
RecvTimeout   == 5

linkRest == <<wire, workerPc, isArdupilot, mavType, executed, wsAlive>>

\* what send_mission_cmd was called with: the record's type and kwargs
Sent(type, item) == [type |-> type, item |-> item]

\* `if not self._drone.connected or not waypoints: return False`
UploadGuardConnOnly(conn, waypoints) == ~conn
UploadGuard(conn, waypoints) == ~conn \/ waypoints = <<>>

\* upload(waypoints) up to the top of its loop: the guard, then
\* _set_status("uploading"), drain_mission_queue(), MISSION_COUNT, deadline
UploadCall(lists) ==
    /\ upPc = "idle" /\ dlPc = "idle"
    /\ \E wps \in lists :
          /\ upWaypoints' = wps
          /\ IF UploadGuard(connected, wps)
             THEN /\ upPc' = "done" /\ upResult' = "False"
                  /\ upSent' = <<>>
                  /\ UNCHANGED <<missionStatus, missionInbox, cmdQueue, nextId, upDeadline>>
             ELSE /\ missionStatus' = "uploading"
                  /\ missionInbox' = <<>>
                  /\ EnqueueCmd("mission_count", "mission", <<>>, "", NoAxes,
                                [NoItem EXCEPT !.count = Len(wps) + 1])
                  /\ upSent' = << Sent("mission_count",
                                       [NoItem EXCEPT !.count = Len(wps) + 1]) >>
                  /\ upDeadline' = now + UploadTimeout
                  /\ upPc' = "top" /\ upResult' = "none"
    /\ upCalls' = upCalls + 1
    /\ upFirstEvent' = "none"
    /\ UNCHANGED <<linkRest, connected, now, linkRx, upRecvStart, requestsSent,
                   dlVars, vehVars, telVars, stVars, extNoMx, lateNoMx,
                   dlDeadline, dlRecvStart>>

\* a failure exit that returns False without _set_status
UploadFailKeepsStatus ==
    /\ UNCHANGED missionStatus /\ upResult' = "False" /\ upPc' = "done"

\* the failure exits: _set_status("upload_failed"); return False
UploadFail ==
    /\ missionStatus' = "upload_failed" /\ upResult' = "False" /\ upPc' = "done"

\* `while time.time() < deadline:` and the entry into recv_mission_msg
UploadLoopTop ==
    /\ upPc = "top"
    /\ IF now < upDeadline
       THEN /\ upPc' = "recv" /\ upRecvStart' = now
            /\ UNCHANGED <<missionStatus, upResult>>
       ELSE UploadFail /\ UNCHANGED upRecvStart
    /\ UNCHANGED <<linkVars, connected, now, linkRx, missionInbox, upWaypoints,
                   upDeadline, upFirstEvent, upCalls, requestsSent, dlVars, vehVars, telVars, stVars, extVars>>

\* which of the claim's events the reading of msg is
UploadEvent(msg, total) ==
    IF msg.type = "MISSION_ACK"
    THEN (IF msg.item.ack = MAV_MISSION_ACCEPTED THEN "accepted" ELSE "nack")
    ELSE IF msg.type \in {"MISSION_REQUEST_INT", "MISSION_REQUEST"}
            /\ msg.item.seq >= total
    THEN "badseq"
    ELSE "none"

\* recv_mission_msg returned a message: the body of the loop
UploadRecvMsg ==
    /\ upPc = "recv" /\ missionInbox # <<>>
    /\ LET msg   == Head(missionInbox)
           total == Len(upWaypoints) + 1
       IN  /\ missionInbox' = Tail(missionInbox)
           /\ upFirstEvent' = IF upFirstEvent # "none" THEN upFirstEvent
                              ELSE UploadEvent(msg, total)
           /\ CASE msg.type = "MISSION_ACK" ->
                     /\ IF msg.item.ack = MAV_MISSION_ACCEPTED
                        THEN /\ missionStatus' = "uploaded"
                             /\ upResult' = "True" /\ upPc' = "done"
                        ELSE UploadFail
                     /\ UNCHANGED <<cmdQueue, nextId, upSent>>
                [] msg.type \in {"MISSION_REQUEST_INT", "MISSION_REQUEST"} ->
                     IF msg.item.seq < total /\ ~SendItemRaises(msg.item.seq, upWaypoints)
                     THEN /\ EnqueueCmd("mission_item_int", "mission", <<>>, "", NoAxes,
                                        ItemKwargs(msg.item.seq, upWaypoints))
                          /\ upSent' = Append(upSent,
                                 Sent("mission_item_int",
                                      ItemKwargs(msg.item.seq, upWaypoints)))
                          /\ upPc' = "top"
                          /\ UNCHANGED <<missionStatus, upResult>>
                     ELSE UploadFail /\ UNCHANGED <<cmdQueue, nextId, upSent>>
                [] OTHER ->
                     /\ upPc' = "top"
                     /\ UNCHANGED <<missionStatus, upResult, cmdQueue, nextId, upSent>>
    /\ UNCHANGED <<linkRest, connected, now, linkRx, upWaypoints, upDeadline,
                   upRecvStart, upCalls, requestsSent, dlVars, vehVars, telVars, stVars,
                   extNoMx, lateNoMx, dlDeadline, dlRecvStart>>

\* recv_mission_msg(timeout=5.0) returned None
UploadRecvTimeout ==
    /\ upPc = "recv" /\ missionInbox = <<>>
    /\ now >= upRecvStart + RecvTimeout
    /\ UploadFail
    /\ upFirstEvent' = IF upFirstEvent # "none" THEN upFirstEvent ELSE "timeout"
    /\ UNCHANGED <<linkVars, connected, now, linkRx, missionInbox, upWaypoints,
                   upDeadline, upRecvStart, upCalls, requestsSent, dlVars, vehVars, telVars, stVars, extVars>>

\* the caller takes the result; upload may be called again
UploadReturn ==
    /\ upPc = "done"
    /\ upPc' = "idle" /\ upResult' = "none"
    /\ UNCHANGED <<linkVars, connected, now, linkRx, missionInbox, missionStatus,
                   upWaypoints, upDeadline, upRecvStart, upFirstEvent, upCalls,
                   requestsSent, dlVars, vehVars, telVars, stVars, extVars>>

\* _handle_message on a mission protocol message: routed to the inbox
WorkerRecvMission ==
    /\ connected
    /\ workerPc = "recv"
    /\ linkRx # <<>>
    /\ missionInbox' = Append(missionInbox, Head(linkRx))
    /\ linkRx' = Tail(linkRx)
    /\ workerPc' = "top"
    /\ UNCHANGED <<cmdQueue, wire, isArdupilot, mavType, nextId, executed, wsAlive,
                   connected, now, missionStatus, upPc, upWaypoints, upDeadline,
                   upRecvStart, upResult, upFirstEvent, upCalls, requestsSent,
                   dlVars, vehVars, telVars, stVars, extVars>>

----------------------------------------------------------------------------
(* Specification SpecUpload: upload() against a vehicle that may send any  *)
(* mission message at any time, with the clock running.  A second passes   *)
(* only while upload waits on an empty inbox; the worker and the link take *)
(* no measurable time.                                                     *)

MaxWaypoints == 1
MaxRequests  == 2
MaxPending   == 1
MaxTime      == 36
MaxUploads   == 1

UploadWp ==
    Waypoint(FloatOfDec8(FALSE, 51, 50000000), FloatOfDec8(TRUE, 0, 10000000),
             FloatOfInt(50), "waypoint",
             FloatOfInt(0), FloatOfInt(2), FloatOfInt(0), FloatOfInt(0))

UploadLists == { [i \in 1..n |-> UploadWp] : n \in 0..MaxWaypoints }

VehicleAlphabet ==
    { MissionRequestInt(seq) : seq \in 0..(MaxWaypoints + 1) }
    \cup { MissionRequest(0), MissionAck(MAV_MISSION_ACCEPTED),
           MissionAck(MAV_MISSION_ERROR), MissionCount(1) }

IsRequest(msg) == msg.type \in {"MISSION_REQUEST_INT", "MISSION_REQUEST"}

\* how long into a pending read the vehicle speaks: at once, or in the last
\* second before the read times out
SendPhases == {0, RecvTimeout - 1}

\* the vehicle sends a mission message
VehicleSends ==
    /\ connected
    /\ Len(linkRx) + Len(missionInbox) < MaxPending
    /\ upPc = "recv" => (now - upRecvStart) \in SendPhases
    /\ \E msg \in VehicleAlphabet :
          /\ IsRequest(msg) => requestsSent < MaxRequests
          /\ linkRx' = Append(linkRx, msg)
          /\ requestsSent' = requestsSent + (IF IsRequest(msg) THEN 1 ELSE 0)
    /\ UNCHANGED <<linkVars, connected, now, missionInbox, missionStatus, upPc,
                   upWaypoints, upDeadline, upRecvStart, upResult, upFirstEvent,
                   upCalls, dlVars, vehVars, telVars, stVars, extVars>>

\* the vehicle reads a message off the link
VehicleTakes ==
    /\ wire # <<>>
    /\ wire' = Tail(wire)
    /\ UNCHANGED <<cmdQueue, workerPc, isArdupilot, mavType, nextId, executed,
                   wsAlive, upVars, dlVars, vehVars, telVars, stVars, extVars>>

\* one second passes while upload waits in recv_mission_msg
Tick ==
    /\ now < MaxTime
    /\ upPc = "recv" /\ missionInbox = <<>>
    /\ now < upRecvStart + RecvTimeout
    /\ cmdQueue = <<>> /\ wire = <<>> /\ linkRx = <<>>
    /\ now' = now + 1
    /\ upFirstEvent' = IF upFirstEvent = "none" /\ now + 1 >= upDeadline
                       THEN "deadline" ELSE upFirstEvent
    /\ UNCHANGED <<linkVars, connected, linkRx, missionInbox, missionStatus, upPc,
                   upWaypoints, upDeadline, upRecvStart, upResult, upCalls,
                   requestsSent, dlVars, vehVars, telVars, stVars, extVars>>

UploadInit ==
    /\ RcIdle /\ LinkIdle /\ EngineIdle
    /\ connected \in BOOLEAN

UploadCallBounded == upCalls < MaxUploads /\ UploadCall(UploadLists)

UploadNext ==
    \/ UploadCallBounded /\ UNCHANGED rcVars
    \/ UploadLoopTop /\ UNCHANGED rcVars
    \/ UploadRecvMsg /\ UNCHANGED rcVars
    \/ UploadRecvTimeout /\ UNCHANGED rcVars
    \/ UploadReturn /\ UNCHANGED rcVars
    \/ VehicleSends /\ UNCHANGED rcVars
    \/ VehicleTakes /\ UNCHANGED rcVars
    \/ Tick /\ UNCHANGED rcVars
    \/ WorkerTop /\ LinkFrame
    \/ WorkerDrainOne /\ LinkFrame
    \/ WorkerDrainDone /\ LinkFrame
    \/ WorkerRecvNone /\ LinkFrame
    \/ WorkerRecvMission /\ UNCHANGED rcVars

SpecUpload == UploadInit /\ [][UploadNext]_vars

\* --- C4 ---
\* C4: an upload called on a connected vehicle with N >= 1 waypoints returns
\* success if and only if an ACCEPTED MISSION_ACK is read from the inbox
\* before a read times out, another ack is read, a request for seq >= N+1 is
\* read, or the overall deadline passes; otherwise it returns failure.
C4_UploadSuccessIff ==
    (upPc = "done" /\ connected /\ upWaypoints # <<>>) =>
        /\ upResult \in {"True", "False"}
        /\ (upResult = "True") <=> (upFirstEvent = "accepted")

\* --- C6 ---
\* C6: upload called with an empty waypoint list returns failure and has no
\* effect: no record is enqueued, the inbox and the mission status are as
\* they were.
C6_EmptyUploadNoOp ==
    [][(upPc = "idle" /\ upPc' # "idle" /\ upWaypoints' = <<>>) =>
          /\ upPc' = "done" /\ upResult' = "False"
          /\ UNCHANGED <<cmdQueue, nextId, wire, linkRx, missionInbox, missionStatus>>]_vars

\* an upload with an empty list has returned failure on a connected link
\* whose inbox holds a message and whose status is that of an earlier upload
C6_Witness ==
    /\ upPc = "done" /\ upWaypoints = <<>> /\ upResult = "False"
    /\ connected /\ upCalls = 1
    /\ missionInbox # <<>>

\* --- C21 ---
\* the records put on the command queue by the step
Enqueued == { i \in 1..Len(cmdQueue') : cmdQueue'[i].id >= nextId }

\* upload reads an item request for a seq below N+1 from the inbox
ReadsItemRequest ==
    /\ upPc = "recv" /\ missionInbox # <<>>
    /\ missionInbox' = Tail(missionInbox)
    /\ IsRequest(Head(missionInbox))
    /\ Head(missionInbox).item.seq < Len(upWaypoints) + 1

\* the item the claim names for seq: the home placeholder for 0, waypoint
\* seq - 1 of the list otherwise
IsClaimedItem(item, seq, waypoints) ==
    IF seq = 0
    THEN /\ item.seq = 0
         /\ item.command = MAV_CMD_NAV_WAYPOINT
         /\ item.x = DegToE7(waypoints[1].lat)
         /\ item.y = DegToE7(waypoints[1].lon)
         /\ item.z = Float0
    ELSE /\ item.seq = seq
         /\ item.command = CommandOf(waypoints[seq].item_type)
         /\ item.x = DegToE7(waypoints[seq].lat)
         /\ item.y = DegToE7(waypoints[seq].lon)
         /\ item.z = waypoints[seq].alt
         /\ item.param1 = waypoints[seq].param1
         /\ item.param2 = waypoints[seq].param2
         /\ item.param3 = waypoints[seq].param3
         /\ item.param4 = waypoints[seq].param4

LiveAlphabet ==
    { MissionRequestInt(0), MissionCount(1), MissionAck(MAV_MISSION_ACCEPTED) }

\* a mission message of the vehicle reaches the inbox (_handle_message puts
\* it there), at most one per second of a pending read
InboxGets ==
    /\ connected
    /\ upPc = "recv" /\ now > upRecvStart
    /\ missionInbox = <<>>
    /\ \E msg \in LiveAlphabet : missionInbox' = <<msg>>
    /\ UNCHANGED <<linkVars, connected, now, linkRx, missionStatus, upPc,
                   upWaypoints, upDeadline, upRecvStart, upResult, upFirstEvent,
                   upCalls, requestsSent, dlVars, vehVars, telVars, stVars, extVars>>

\* one second passes during the call; queue.get(timeout=5.0) does not wait
\* beyond its timeout
TickBusy ==
    /\ now < MaxTime
    /\ upPc \in {"top", "recv"}
    /\ upPc = "recv" => now < upRecvStart + RecvTimeout
    /\ now' = now + 1
    /\ upFirstEvent' = IF upFirstEvent = "none" /\ now + 1 >= upDeadline
                       THEN "deadline" ELSE upFirstEvent
    /\ UNCHANGED <<linkVars, connected, linkRx, missionInbox, missionStatus, upPc,
                   upWaypoints, upDeadline, upRecvStart, upResult, upCalls,
                   requestsSent, dlVars, vehVars, telVars, stVars, extVars>>

UploadLiveNext ==
    \/ UploadCallBounded /\ UNCHANGED rcVars
    \/ UploadLoopTop /\ UNCHANGED rcVars
    \/ UploadRecvMsg /\ UNCHANGED rcVars
    \/ UploadRecvTimeout /\ UNCHANGED rcVars
    \/ UploadReturn /\ UNCHANGED rcVars
    \/ InboxGets /\ UNCHANGED rcVars
    \/ TickBusy /\ UNCHANGED rcVars

\* a step of the thread running upload(), told by its position: it leaves
\* the loop test, takes the message its read returns, or gives up the read
UploadThreadStep ==
    \/ /\ upPc = "top" /\ upPc' \in {"recv", "done"}
       /\ UNCHANGED missionInbox
    \/ /\ upPc = "recv" /\ missionInbox # <<>>
       /\ missionInbox' = Tail(missionInbox) /\ upPc' \in {"top", "done"}
    \/ /\ upPc = "recv" /\ missionInbox = <<>>
       /\ now >= upRecvStart + RecvTimeout /\ upPc' = "done"
       /\ UNCHANGED missionInbox

UploadFairness ==
    /\ WF_<<upPc, missionInbox>>(UploadThreadStep)
    /\ WF_vars(TickBusy /\ UNCHANGED rcVars)

SpecUploadLive == UploadInit /\ [][UploadLiveNext]_vars /\ UploadFairness

UploadInProgress == upPc \in {"top", "recv"}

\* an upload in progress returns
UploadReturns == UploadInProgress ~> (upPc = "done")

\* no inbox read waits longer than its timeout
ReadWaitBounded == [](upPc = "recv" => now - upRecvStart <= RecvTimeout)

\* C24: upload always terminates, whatever the vehicle does (silent, or
\* sending mission messages for ever); it returns failure once the overall
\* 30 s deadline has passed without an ACCEPTED ack; and no single inbox
\* read waits longer than 5 s.
C24_UploadTerminates ==
    /\ UploadReturns
    /\ ReadWaitBounded
    /\ []((upPc = "done" /\ connected /\ upWaypoints # <<>>
           /\ upFirstEvent = "deadline") => upResult = "False")

\* --- C38 ---
\* the mission items upload() has sent in this call cover every seq 0..N
AllItemsSent ==
    \A seq \in 0 .. Len(upWaypoints) :
       \E k \in 1 .. Len(upSent) :
          /\ upSent[k].type = "mission_item_int" /\ upSent[k].item.seq = seq
          /\ \E c \in 1 .. (k - 1) : upSent[c].type = "mission_count"

\* C38: upload returns True only if, in that call and after its
\* MISSION_COUNT, it has sent a MISSION_ITEM_INT for every seq in 0..N; a
\* mission message that reaches the inbox after the drain without the
\* transfer having run cannot make it report success.
C38_SuccessNeedsAllItems ==
    (upPc = "done" /\ upResult = "True") => AllItemsSent

\* --- C22 ---
\* C22: when upload, called with a non-empty list on a connected vehicle,
\* has returned, the mission status is 'uploaded' if it returned success and
\* 'upload_failed' if it returned failure; the status is 'uploading' only
\* while the call is in progress.
C22_StatusMatchesResult ==
    /\ (upPc = "done" /\ connected /\ upWaypoints # <<>>) =>
          /\ upResult \in {"True", "False"}
          /\ upResult = "True" => missionStatus = "uploaded"
          /\ upResult = "False" => missionStatus = "upload_failed"
    /\ missionStatus = "uploading" => upPc \in {"top", "recv"}

\* an upload that had answered a request has returned failure on a request
\* for an invalid seq
C22_Witness ==
    /\ upPc = "done" /\ upResult = "False" /\ upFirstEvent = "badseq"
    /\ Len(upSent) >= 2 /\ missionStatus = "upload_failed"

----------------------------------------------------------------------------
(* MissionManager.download (mission.py)                                    *)

DlCountTimeout == 5     \* recv_mission_msg(timeout=5.0) for MISSION_COUNT
DlItemWindow   == 5     \* deadline = time.time() + 5.0
DlItemTimeout  == 3     \* recv_mission_msg(timeout=3.0)

\* download() up to its first read: the guard, drain_mission_queue(),
\* send_mission_cmd("mission_request_list")
DownloadCall ==
    /\ dlPc = "idle"
    /\ dlAfterUpload' = (upResult = "True")
    /\ dlCount' = 0 /\ dlSeq' = 0 /\ dlItems' = <<>>
    /\ dlDeadline' = 0
    /\ IF ~connected
       THEN /\ dlPc' = "done"
            /\ UNCHANGED <<missionInbox, cmdQueue, nextId, dlRecvStart>>
       ELSE /\ missionInbox' = <<>>
            /\ EnqueueCmd("mission_request_list", "mission", <<>>, "", NoAxes, NoItem)
            /\ dlRecvStart' = now
            /\ dlPc' = "count"
    /\ UNCHANGED <<linkRest, connected, now, linkRx, missionStatus, upPc, upWaypoints,
                   upDeadline, upRecvStart, upResult, upFirstEvent, upCalls,
                   requestsSent, vehVars, telVars, stVars, extNoMx, lateNoMx, upSent>>

\* the dict download() builds from a MISSION_ITEM_INT
DownloadedItem(item) ==
    Waypoint(IntDivE7(item.x), IntDivE7(item.y), item.z, ItemTypeOf(item.command),
             item.param1, item.param2, item.param3, item.param4)

\* the next turn of `for seq in range(1, count)`: the request for the next
\* item with a new deadline, or after the last turn MISSION_ACK and return
DownloadNextSeq ==
    IF dlSeq + 1 < dlCount
    THEN /\ dlSeq' = dlSeq + 1
         /\ EnqueueCmd("mission_request_int", "mission", <<>>, "",
                       NoAxes, [NoItem EXCEPT !.seq = dlSeq + 1])
         /\ dlDeadline' = now + DlItemWindow
         /\ dlRecvStart' = now
         /\ UNCHANGED dlPc
    ELSE /\ EnqueueCmd("mission_ack", "mission", <<>>, "", NoAxes, NoItem)
         /\ dlPc' = "done"
         /\ UNCHANGED <<dlSeq, dlDeadline, dlRecvStart>>

\* the read of MISSION_COUNT, and the request for item 1 when there is one
DownloadRecvCount ==
    /\ dlPc = "count" /\ missionInbox # <<>>
    /\ LET msg == Head(missionInbox)
       IN  /\ missionInbox' = Tail(missionInbox)
           /\ IF msg.type # "MISSION_COUNT" \/ msg.item.count <= 1
              THEN /\ dlPc' = "done"
                   /\ UNCHANGED <<dlCount, dlSeq, cmdQueue, nextId, dlDeadline, dlRecvStart>>
              ELSE /\ dlCount' = msg.item.count
                   /\ dlSeq' = 1
                   /\ EnqueueCmd("mission_request_int", "mission", <<>>, "", NoAxes,
                                 [NoItem EXCEPT !.seq = 1])
                   /\ dlDeadline' = now + DlItemWindow
                   /\ dlRecvStart' = now
                   /\ dlPc' = "item"
    /\ UNCHANGED <<linkRest, connected, now, linkRx, missionStatus, upPc, upWaypoints,
                   upDeadline, upRecvStart, upResult, upFirstEvent, upCalls,
                   requestsSent, dlItems, dlAfterUpload, vehVars, telVars, stVars,
                   extNoMx, lateNoMx, upSent>>

\* one read inside `while time.time() < deadline`: the awaited item is
\* appended and the for loop goes on; any other message is skipped, and the
\* while condition is tested again: when it fails the for loop goes on
\* without the item
DownloadRecvItem ==
    /\ dlPc = "item" /\ missionInbox # <<>>
    /\ LET msg == Head(missionInbox)
       IN  /\ missionInbox' = Tail(missionInbox)
           /\ IF msg.type = "MISSION_ITEM_INT" /\ msg.item.seq = dlSeq
              THEN /\ dlItems' = Append(dlItems, DownloadedItem(msg.item))
                   /\ DownloadNextSeq
              ELSE IF now < dlDeadline
              THEN /\ dlRecvStart' = now
                   /\ UNCHANGED <<dlItems, dlSeq, dlPc, cmdQueue, nextId, dlDeadline>>
              ELSE /\ UNCHANGED dlItems
                   /\ DownloadNextSeq
    /\ UNCHANGED <<linkRest, connected, now, linkRx, missionStatus, upPc, upWaypoints,
                   upDeadline, upRecvStart, upResult, upFirstEvent, upCalls,
                   requestsSent, dlCount, dlAfterUpload, vehVars, telVars, stVars,
                   extNoMx, lateNoMx, upSent>>

\* recv_mission_msg returned None: `return []`
DownloadRecvTimeout ==
    /\ dlPc \in {"count", "item"} /\ missionInbox = <<>>
    /\ now >= dlRecvStart + (IF dlPc = "count" THEN DlCountTimeout ELSE DlItemTimeout)
    /\ dlItems' = <<>>
    /\ dlPc' = "done"
    /\ UNCHANGED <<linkVars, upVars, dlCount, dlSeq, dlAfterUpload, vehVars, telVars,
                   stVars, extNoMx, lateNoMx, mxVars>>

----------------------------------------------------------------------------
(* MockDrone mission handlers (sitl/mock_drone.py)                         *)

\* a None slot of MockDrone.mission_items
NoneItem == [NoItem EXCEPT !.seq = -1]

\* len([m for m in self.mission_items if m is not None])
StoredCount(items) == Cardinality({ i \in 1..Len(items) : items[i] # NoneItem })

\* the MISSION_ITEM_INT the mock sends for a stored item
ServedItem(seq, item) ==
    MissionMsg("MISSION_ITEM_INT",
               PackItem([NoItem EXCEPT !.seq = seq,
                                       !.frame = item.frame,
                                       !.command = item.command,
                                       !.param1 = item.param1, !.param2 = item.param2,
                                       !.param3 = item.param3, !.param4 = item.param4,
                                       !.x = item.x, !.y = item.y, !.z = item.z]))

\* MockDrone's dispatch on one message from the ground station
MockHandle ==
    /\ wire # <<>>
    /\ wire' = Tail(wire)
    /\ LET m == Head(wire)
       IN  CASE m.name = "MISSION_COUNT" ->
                  /\ vehExpected' = m.item.count
                  /\ vehItems' = [i \in 1..m.item.count |-> NoneItem]
                  /\ linkRx' = Append(linkRx, MissionRequestInt(0))
             [] m.name = "MISSION_ITEM_INT" ->
                  IF m.item.seq < Len(vehItems)
                  THEN /\ vehItems' = [vehItems EXCEPT ![m.item.seq + 1] = m.item]
                       /\ linkRx' = Append(linkRx,
                              IF m.item.seq + 1 < vehExpected
                              THEN MissionRequestInt(m.item.seq + 1)
                              ELSE MissionAck(MAV_MISSION_ACCEPTED))
                       /\ UNCHANGED vehExpected
                  ELSE UNCHANGED <<vehItems, vehExpected, linkRx>>
             [] m.name = "MISSION_REQUEST_LIST" ->
                  /\ linkRx' = Append(linkRx, MissionCount(StoredCount(vehItems)))
                  /\ UNCHANGED <<vehItems, vehExpected>>
             [] m.name = "MISSION_REQUEST_INT" ->
                  /\ linkRx' = Append(linkRx,
                         IF m.item.seq < Len(vehItems)
                            /\ vehItems[m.item.seq + 1] # NoneItem
                         THEN ServedItem(m.item.seq, vehItems[m.item.seq + 1])
                         ELSE MissionAck(MAV_MISSION_ERROR))
                  /\ UNCHANGED <<vehItems, vehExpected>>
             [] OTHER -> UNCHANGED <<vehItems, vehExpected, linkRx>>
    /\ UNCHANGED <<cmdQueue, workerPc, isArdupilot, mavType, nextId, executed, wsAlive,
                   connected, now, missionInbox, missionStatus, upPc, upWaypoints,
                   upDeadline, upRecvStart, upResult, upFirstEvent, upCalls,
                   requestsSent, dlVars, telVars, stVars, extVars>>

----------------------------------------------------------------------------
(* Specification SpecRoundTrip: one upload() followed by one download()    *)
(* against the mock drone.  The mock answers every message at once, so no  *)
(* read times out and no deadline passes: the clock stands still.          *)

MaxRtLen == 2

\* 51.5, -0.1, 50 m, hold 2 s
RtPlain ==
    Waypoint(FloatOfDec8(FALSE, 51, 50000000), FloatOfDec8(TRUE, 0, 10000000),
             FloatOfInt(50), "waypoint",
             FloatOfInt(0), FloatOfInt(2), FloatOfInt(0), FloatOfInt(0))

\* 0.41, 0.41, 50 m
RtTruncated ==
    Waypoint(FloatOfDec8(FALSE, 0, 41000000), FloatOfDec8(FALSE, 0, 41000000),
             FloatOfInt(50), "waypoint",
             FloatOfInt(0), FloatOfInt(0), FloatOfInt(0), FloatOfInt(0))

\* 47.25, 8.5, 50.1 m, hold 0.1 s
RtFractional ==
    Waypoint(FloatOfDec8(FALSE, 47, 25000000), FloatOfDec8(FALSE, 8, 50000000),
             FloatOfDec8(FALSE, 50, 10000000), "waypoint",
             FloatOfDec8(FALSE, 0, 10000000), FloatOfInt(0), FloatOfInt(0), FloatOfInt(0))

\* 47.25, 8.5, 30 m, 5 turns, radius -1.5 (counter-clockwise)
RtLoiter ==
    Waypoint(FloatOfDec8(FALSE, 47, 25000000), FloatOfDec8(FALSE, 8, 50000000),
             FloatOfInt(30), "loiter_turns",
             FloatOfInt(5), FloatOfInt(0), FloatOfDec8(TRUE, 1, 50000000), FloatOfInt(0))

\* an item_type that ITEM_TYPE_COMMANDS does not list
RtUnlisted ==
    Waypoint(FloatOfDec8(FALSE, 47, 25000000), FloatOfDec8(FALSE, 8, 50000000),
             FloatOfInt(30), "spline",
             FloatOfInt(0), FloatOfInt(0), FloatOfInt(0), FloatOfInt(0))

RtSamples == {RtPlain, RtTruncated, RtFractional, RtLoiter, RtUnlisted}

RtLists == UNION { [1..n -> RtSamples] : n \in 1..MaxRtLen }

RtInit ==
    /\ RcIdle /\ LinkIdle /\ EngineIdle
    /\ connected = TRUE

RtUpload == upCalls = 0 /\ UploadCall(RtLists)

RtDownload == upPc = "done" /\ DownloadCall

RtNext ==
    \/ RtUpload /\ UNCHANGED rcVars
    \/ UploadLoopTop /\ UNCHANGED rcVars
    \/ UploadRecvMsg /\ UNCHANGED rcVars
    \/ RtDownload /\ UNCHANGED rcVars
    \/ DownloadRecvCount /\ UNCHANGED rcVars
    \/ DownloadRecvItem /\ UNCHANGED rcVars
    \/ MockHandle /\ UNCHANGED rcVars
    \/ WorkerTop /\ LinkFrame
    \/ WorkerDrainOne /\ LinkFrame
    \/ WorkerDrainDone /\ LinkFrame
    \/ WorkerRecvNone /\ LinkFrame
    \/ WorkerRecvMission /\ UNCHANGED rcVars

SpecRoundTrip == RtInit /\ [][RtNext]_vars

\* --- C5 ---
\* C5: when a download that followed a successful upload of N waypoints to
\* the mock drone has returned, it has returned exactly N items, in the
\* order of the input, each with lat and lon within 1e-7 degrees of the
\* input and with item_type, alt and param1..param4 equal to the input.
C5_RoundTripPreserves ==
    (dlPc = "done" /\ dlAfterUpload) =>
        /\ Len(dlItems) = Len(upWaypoints)
        /\ \A i \in 1..Min(Len(dlItems), Len(upWaypoints)) :
              /\ WithinE7(dlItems[i].lat, upWaypoints[i].lat)
              /\ WithinE7(dlItems[i].lon, upWaypoints[i].lon)
              /\ dlItems[i].item_type = upWaypoints[i].item_type
              /\ dlItems[i].alt = upWaypoints[i].alt
              /\ dlItems[i].param1 = upWaypoints[i].param1
              /\ dlItems[i].param2 = upWaypoints[i].param2
              /\ dlItems[i].param3 = upWaypoints[i].param3
              /\ dlItems[i].param4 = upWaypoints[i].param4

----------------------------------------------------------------------------
(* Specification SpecDownload: download() against a vehicle that may send  *)
(* a count, the items of a stored two-waypoint mission and other mission   *)
(* messages at any time, with the clock running.  A second passes only     *)
(* while download waits on an empty inbox.                                 *)

MaxDlMsgs == 5
MaxDlTime == 24

\* the mission the vehicle holds
DlMission == <<RtPlain, RtLoiter>>

\* the MISSION_ITEM_INT the vehicle answers a request for seq with
DlItemMsg(seq) == ServedItem(seq, ItemKwargs(seq, DlMission))

DlVehicleAlphabet ==
    { MissionCount(c) : c \in 1..(Len(DlMission) + 1) }
    \cup { DlItemMsg(seq) : seq \in 1..Len(DlMission) }
    \cup { MissionAck(MAV_MISSION_ERROR) }

\* how long into a pending read the vehicle speaks: at once, or in the last
\* second before the item read times out
DlSendPhases == {0, DlItemTimeout - 1}

\* the vehicle sends a mission message
DlVehicleSends ==
    /\ connected
    /\ dlPc \in {"count", "item"}
    /\ dvSent < MaxDlMsgs
    /\ Len(linkRx) + Len(missionInbox) < MaxPending
    /\ (now - dlRecvStart) \in DlSendPhases
    /\ \E msg \in DlVehicleAlphabet : linkRx' = Append(linkRx, msg)
    /\ dvSent' = dvSent + 1
    /\ UNCHANGED <<linkVars, connected, now, missionInbox, missionStatus, upPc,
                   upWaypoints, upDeadline, upRecvStart, upResult, upFirstEvent,
                   upCalls, requestsSent, dlVars, vehVars, telVars, stVars,
                   extNoMx, mxVars, fnVars, tailVars>>

\* one second passes while download waits in recv_mission_msg
DlTick ==
    /\ now < MaxDlTime
    /\ dlPc \in {"count", "item"} /\ missionInbox = <<>>
    /\ now < dlRecvStart + (IF dlPc = "count" THEN DlCountTimeout ELSE DlItemTimeout)
    /\ cmdQueue = <<>> /\ linkRx = <<>>
    /\ now' = now + 1
    /\ UNCHANGED <<linkVars, connected, linkRx, missionInbox, missionStatus, upPc,
                   upWaypoints, upDeadline, upRecvStart, upResult, upFirstEvent,
                   upCalls, requestsSent, dlVars, vehVars, telVars, stVars, extVars>>

DlInit ==
    /\ RcIdle /\ LinkIdle /\ EngineIdle
    /\ connected \in BOOLEAN

DlNext ==
    \/ DownloadCall /\ UNCHANGED rcVars
    \/ DownloadRecvCount /\ UNCHANGED rcVars
    \/ DownloadRecvItem /\ UNCHANGED rcVars
    \/ DownloadRecvTimeout /\ UNCHANGED rcVars
    \/ DlVehicleSends /\ UNCHANGED rcVars
    \/ DlTick /\ UNCHANGED rcVars
    \/ WorkerTop /\ LinkFrame
    \/ WorkerDrainOne /\ LinkFrame
    \/ WorkerDrainDone /\ LinkFrame
    \/ WorkerRecvNone /\ LinkFrame
    \/ WorkerRecvMission /\ UNCHANGED rcVars

SpecDownload == DlInit /\ [][DlNext]_vars

\* download has put a MISSION_ACK on the command queue
DlAckSent ==
    \/ \E i \in 1..Len(cmdQueue) : cmdQueue[i].type = "mission_ack"
    \/ \E i \in 1..Len(wire) : wire[i].name = "MISSION_ACK"

\* the items are those of seq 1..count-1, in that order
DlComplete ==
    /\ Len(dlItems) = dlCount - 1
    /\ \A i \in 1..Len(dlItems) :
          i <= Len(DlMission) /\ dlItems[i] = DownloadedItem(DlItemMsg(i).item)

\* --- C23 ---
\* C23: a download that received MISSION_COUNT(count) with count > 1 returns
\* either the empty list or exactly the count-1 items of seq 1..count-1 in
\* increasing order, and MISSION_ACK is emitted only after every item
\* 1..count-1 has been received.
C23_DownloadAllOrNothing ==
    /\ (dlPc = "done" /\ dlCount > 1) => (dlItems = <<>> \/ DlComplete)
    /\ DlAckSent => (dlCount > 1 /\ DlComplete)

----------------------------------------------------------------------------
(* MissionManager.upload_fence and upload_polygon_fence (mission.py)       *)

MAV_MISSION_TYPE_FENCE == 1
MAV_FRAME_GLOBAL == 0
MAV_CMD_NAV_FENCE_CIRCLE_INCLUSION == 5003
MAV_CMD_NAV_FENCE_POLYGON_VERTEX_INCLUSION == 5001
MinVertices == 3

\* `deadline = time.time() + 15` of upload_fence, `+ 30` of
\* upload_polygon_fence
FenceDeadline(kind) == IF kind = "circle" THEN 15 ELSE 30

\* `if msg.type == MAV_MISSION_ACCEPTED:` of both fence uploads
FenceAcceptsAny(ack_type) == TRUE
FenceAccepts(ack_type) == ack_type = MAV_MISSION_ACCEPTED

\* a vertex dict {"lat": .., "lon": ..}
Vertex(lat, lon) == [lat |-> lat, lon |-> lon]

\* the circle of upload_fence(lat, lon, radius)
FenceCircle ==
    [lat |-> FloatOfDec8(FALSE, 51, 50000000), lon |-> FloatOfDec8(TRUE, 0, 10000000),
     radius |-> FloatOfInt(100)]

\* vertex lists of upload_polygon_fence: too short, and a triangle
FenceVertexLists ==
    { << Vertex(FloatOfDec8(FALSE, 51, 50000000), FloatOfDec8(TRUE, 0, 10000000)),
         Vertex(FloatOfDec8(FALSE, 47, 25000000), FloatOfDec8(FALSE, 8, 50000000)) >>,
      << Vertex(FloatOfDec8(FALSE, 51, 50000000), FloatOfDec8(TRUE, 0, 10000000)),
         Vertex(FloatOfDec8(FALSE, 47, 25000000), FloatOfDec8(FALSE, 8, 50000000)),
         Vertex(FloatOfDec8(FALSE, 0, 41000000), FloatOfDec8(FALSE, 0, 41000000)) >> }

\* the kwargs of the circle's mission_item_int
CircleItem(circle) ==
    [NoItem EXCEPT !.seq = 0, !.frame = MAV_FRAME_GLOBAL,
                   !.command = MAV_CMD_NAV_FENCE_CIRCLE_INCLUSION,
                   !.param1 = circle.radius,
                   !.x = DegToE7(circle.lat), !.y = DegToE7(circle.lon),
                   !.mission_type = MAV_MISSION_TYPE_FENCE]

\* the kwargs of the mission_item_int of vertices[seq]
VertexItem(seq, vertices) ==
    [NoItem EXCEPT !.seq = seq, !.frame = MAV_FRAME_GLOBAL,
                   !.command = MAV_CMD_NAV_FENCE_POLYGON_VERTEX_INCLUSION,
                   !.param1 = FloatOfInt(Len(vertices)),
                   !.x = DegToE7(vertices[seq + 1].lat),
                   !.y = DegToE7(vertices[seq + 1].lon),
                   !.mission_type = MAV_MISSION_TYPE_FENCE]

fnOthers == <<rcVars, linkRest, connected, now, linkRx, missionStatus, upPc,
              upWaypoints, upDeadline, upRecvStart, upResult, upFirstEvent,
              upCalls, requestsSent, dlVars, vehVars, telVars, stVars, extNoMx,
              mxVars, dvVars, tailVars>>

\* send_mission_cmd of a fence upload
FenceSend(type, item) ==
    /\ EnqueueCmd(type, "mission", <<>>, "", NoAxes, item)
    /\ fnSent' = Append(fnSent, Sent(type, item))

\* either fence upload up to the top of its loop: the guard,
\* drain_mission_queue(), MISSION_COUNT, deadline
FenceCall(bound) ==
    /\ fnPc = "idle" /\ upPc = "idle" /\ dlPc = "idle"
    /\ fnCalls < bound
    /\ fnCalls' = fnCalls + 1
    /\ fnStart' = now /\ fnAckAt' = Never /\ fnLastReq' = Never
    /\ \E kind \in {"circle", "polygon"} :
       \E vertices \in (IF kind = "circle" THEN {<<>>} ELSE FenceVertexLists) :
          LET count == IF kind = "circle" THEN 1 ELSE Len(vertices)
          IN  /\ fnKind' = kind /\ fnCount' = count
              /\ IF ~connected \/ (kind = "polygon" /\ count < MinVertices)
                 THEN /\ fnPc' = "done" /\ fnResult' = "False"
                      /\ fnSent' = <<>>
                      /\ UNCHANGED <<missionInbox, cmdQueue, nextId, fnDeadline>>
                 ELSE /\ missionInbox' = <<>>
                      /\ cmdQueue' = QueuePut(cmdQueue,
                            Cmd(nextId, "mission_count", "mission", <<>>, "", NoAxes,
                                [NoItem EXCEPT !.count = count,
                                               !.mission_type = MAV_MISSION_TYPE_FENCE]))
                      /\ nextId' = nextId + 1
                      /\ fnSent' = << Sent("mission_count",
                                       [NoItem EXCEPT !.count = count,
                                            !.mission_type = MAV_MISSION_TYPE_FENCE]) >>
                      /\ fnDeadline' = now + FenceDeadline(kind)
                      /\ fnPc' = "top" /\ fnResult' = "none"
    /\ UNCHANGED <<fnRecvStart, fnOthers>>

\* `while time.time() < deadline:` and the entry into recv_mission_msg;
\* `return False` after the loop
FenceLoopTop ==
    /\ fnPc = "top"
    /\ IF now < fnDeadline
       THEN /\ fnPc' = "recv" /\ fnRecvStart' = now /\ UNCHANGED fnResult
       ELSE /\ fnPc' = "done" /\ fnResult' = "False" /\ UNCHANGED fnRecvStart
    /\ UNCHANGED <<cmdQueue, nextId, missionInbox, fnKind, fnCount, fnStart, fnDeadline,
                   fnAckAt, fnSent, fnLastReq, fnCalls, fnOthers>>

\* recv_mission_msg returned a message: the body of the loop.  The vertex
\* list of the polygon is known to the model by its length only after the
\* call, so the vertex item is that of the triangle.
FenceRecvMsg ==
    /\ fnPc = "recv" /\ missionInbox # <<>>
    /\ LET msg == Head(missionInbox)
       IN  /\ missionInbox' = Tail(missionInbox)
           /\ CASE msg.type = "MISSION_ACK" ->
                     /\ IF FenceAccepts(msg.item.ack)
                        THEN /\ FenceSend("fence_enable", [NoItem EXCEPT !.enable = 1])
                             /\ fnResult' = "True"
                        ELSE /\ fnResult' = "False"
                             /\ UNCHANGED <<cmdQueue, nextId, fnSent>>
                     /\ fnAckAt' = IF msg.item.ack = MAV_MISSION_ACCEPTED
                                   THEN now ELSE fnAckAt
                     /\ fnPc' = "done"
                     /\ UNCHANGED fnLastReq
                [] msg.type \in {"MISSION_REQUEST_INT", "MISSION_REQUEST"} ->
                     /\ IF fnKind = "circle"
                        THEN /\ FenceSend("mission_item_int", CircleItem(FenceCircle))
                             /\ fnLastReq' = now
                        ELSE IF msg.item.seq < fnCount
                        THEN /\ FenceSend("mission_item_int",
                                    VertexItem(msg.item.seq,
                                        CHOOSE v \in FenceVertexLists : Len(v) = fnCount))
                             /\ fnLastReq' = now
                        ELSE UNCHANGED <<cmdQueue, nextId, fnSent, fnLastReq>>
                     /\ fnPc' = "top"
                     /\ UNCHANGED <<fnResult, fnAckAt>>
                [] OTHER ->
                     /\ fnPc' = "top"
                     /\ UNCHANGED <<fnResult, fnAckAt, cmdQueue, nextId, fnSent, fnLastReq>>
    /\ UNCHANGED <<fnKind, fnCount, fnStart, fnDeadline, fnRecvStart, fnCalls, fnOthers>>

\* recv_mission_msg(timeout=5.0) returned None: `return False`
FenceRecvTimeout ==
    /\ fnPc = "recv" /\ missionInbox = <<>>
    /\ now >= fnRecvStart + RecvTimeout
    /\ fnPc' = "done" /\ fnResult' = "False"
    /\ UNCHANGED <<cmdQueue, nextId, missionInbox, fnKind, fnCount, fnStart, fnDeadline,
                   fnRecvStart, fnAckAt, fnSent, fnLastReq, fnCalls, fnOthers>>

----------------------------------------------------------------------------
(* Specification SpecFence: a circular or a polygon fence upload against a *)
(* vehicle that may send any mission message at any time, with the clock   *)
(* running.  A second passes only while the upload waits on an empty       *)
(* inbox.                                                                  *)

MaxFences     == 1
MaxFnRequests == 2
MaxFnTime     == 36

FenceAlphabet ==
    { MissionRequestInt(seq) : seq \in {0, MinVertices} }
    \cup { MissionAck(MAV_MISSION_ACCEPTED), MissionAck(MAV_MISSION_ERROR),
           MissionCount(1) }

\* the vehicle sends a mission message during the call
FenceVehicleSends ==
    /\ connected
    /\ fnPc \in {"top", "recv"}
    /\ Len(linkRx) + Len(missionInbox) < MaxPending
    /\ fnPc = "recv" => (now - fnRecvStart) \in SendPhases
    /\ \E msg \in FenceAlphabet :
          /\ IsRequest(msg) => requestsSent < MaxFnRequests
          /\ linkRx' = Append(linkRx, msg)
          /\ requestsSent' = requestsSent + (IF IsRequest(msg) THEN 1 ELSE 0)
    /\ UNCHANGED <<linkVars, connected, now, missionInbox, missionStatus, upPc,
                   upWaypoints, upDeadline, upRecvStart, upResult, upFirstEvent,
                   upCalls, dlVars, vehVars, telVars, stVars, extVars>>

\* one second passes while the fence upload waits in recv_mission_msg
FenceTick ==
    /\ now < MaxFnTime
    /\ fnPc = "recv" /\ missionInbox = <<>>
    /\ now < fnRecvStart + RecvTimeout
    /\ cmdQueue = <<>> /\ linkRx = <<>>
    /\ now' = now + 1
    /\ UNCHANGED <<linkVars, connected, linkRx, missionInbox, missionStatus, upPc,
                   upWaypoints, upDeadline, upRecvStart, upResult, upFirstEvent,
                   upCalls, requestsSent, dlVars, vehVars, telVars, stVars, extVars>>

FenceInit ==
    /\ RcIdle /\ LinkIdle /\ EngineIdle
    /\ connected \in BOOLEAN

FenceNext ==
    \/ FenceCall(MaxFences)
    \/ FenceLoopTop
    \/ FenceRecvMsg
    \/ FenceRecvTimeout
    \/ FenceVehicleSends /\ UNCHANGED rcVars
    \/ FenceTick /\ UNCHANGED rcVars
    \/ WorkerTop /\ LinkFrame
    \/ WorkerDrainOne /\ LinkFrame
    \/ WorkerDrainDone /\ LinkFrame
    \/ WorkerRecvNone /\ LinkFrame
    \/ WorkerRecvMission /\ UNCHANGED rcVars

SpecFence == FenceInit /\ [][FenceNext]_vars

\* the positions of the fence-enable commands among the commands a fence
\* upload enqueued
FenceEnablesSent == { i \in 1..Len(fnSent) : fnSent[i].type = "fence_enable" }

\* C25: in both fence uploads the fence-enable command (p1 = 1) is enqueued
\* only after a MISSION_ACK(ACCEPTED) has been read during that upload, at
\* most once, as the last command of the call, and the call then returns
\* success; a call that returns failure has enqueued no fence-enable
\* command, and a call that returns success has enqueued exactly one.
C25_FenceEnableOnlyOnAccepted ==
    /\ Cardinality(FenceEnablesSent) <= 1
    /\ \A i \in FenceEnablesSent :
          /\ fnAckAt # Never
          /\ fnSent[i].item.enable = 1
          /\ i = Len(fnSent)
          /\ fnPc = "done" /\ fnResult = "True"
    /\ fnResult = "True" => Cardinality(FenceEnablesSent) = 1
    /\ fnResult = "False" => FenceEnablesSent = {}
    /\ \A i \in 1..Len(wire) :
          wire[i].name = "COMMAND_LONG" =>
             /\ wire[i].command = MAV_CMD_DO_FENCE_ENABLE
             /\ wire[i].p1 = 1
             /\ fnResult = "True"

\* a polygon upload answered two vertex requests, read the accepting ack
\* and the worker has emitted the fence-enable COMMAND_LONG
C25_Witness ==
    /\ fnKind = "polygon" /\ fnResult = "True"
    /\ Len(fnSent) = 4 /\ fnSent[4].type = "fence_enable"
    /\ \E i \in 1..Len(wire) : wire[i].name = "COMMAND_LONG"

\* C26: every fence upload has an overall timeout of 15 s: no request is
\* answered and no accepting ack is taken 15 s or more after the upload
\* started, so a call still running then returns failure.
C26_FenceOverall15s ==
    /\ fnLastReq # Never => fnLastReq < fnStart + 15
    /\ fnAckAt # Never => fnAckAt < fnStart + 15
    /\ (fnPc = "done" /\ now >= fnStart + 15 /\ fnAckAt = Never) => fnResult = "False"

----------------------------------------------------------------------------
(* MissionManager.start and pause (mission.py)                             *)

\* the mode names start and pause pass to set_mode
StartMode(ardupilot) == IF ardupilot THEN "AUTO" ELSE "MISSION"
PauseMode(ardupilot) == IF ardupilot THEN "LOITER" ELSE "HOLD"

msOthers == <<rcVars, linkRest, connected, now, linkRx, missionInbox, upPc,
              upWaypoints, upDeadline, upRecvStart, upResult, upFirstEvent,
              upCalls, requestsSent, dlVars, vehVars, telVars, stVars, extNoMx,
              mxVars, fnVars, dvVars, lvVars, xcVars, rtVars, mdVars>>

\* start(): the guard, send_mission_cmd("set_current_mission", seq=1), and
\* the entry into time.sleep(0.2)
MissionStart(bound) ==
    /\ msPc \in {"idle", "done"}
    /\ msCalls < bound
    /\ msCalls' = msCalls + 1
    /\ msOp' = "start"
    /\ msFirstId' = nextId
    /\ IF ~connected
       THEN /\ msPc' = "done" /\ msResult' = "False"
            /\ UNCHANGED <<cmdQueue, nextId>>
       ELSE /\ EnqueueCmd("set_current_mission", "mission", <<>>, "", NoAxes,
                          [NoItem EXCEPT !.seq = 1])
            /\ msPc' = "sleep" /\ msResult' = "none"
    /\ UNCHANGED <<missionStatus, msOthers>>

\* start() after the sleep: set_mode("AUTO") or set_mode("MISSION"),
\* _set_status("running"), return True
MissionStartMode ==
    /\ msPc = "sleep"
    /\ EnqueueCmd("set_mode", "mission", <<>>, StartMode(isArdupilot), NoAxes, NoItem)
    /\ missionStatus' = "running"
    /\ msPc' = "done" /\ msResult' = "True"
    /\ UNCHANGED <<msOp, msCalls, msFirstId, msOthers>>

\* pause(): the guard, set_mode("LOITER") or set_mode("HOLD"),
\* _set_status("paused"), return True
MissionPause(bound) ==
    /\ msPc \in {"idle", "done"}
    /\ msCalls < bound
    /\ msCalls' = msCalls + 1
    /\ msOp' = "pause"
    /\ msFirstId' = nextId
    /\ msPc' = "done"
    /\ IF ~connected
       THEN /\ msResult' = "False"
            /\ UNCHANGED <<cmdQueue, nextId, missionStatus>>
       ELSE /\ EnqueueCmd("set_mode", "mission", <<>>, PauseMode(isArdupilot), NoAxes, NoItem)
            /\ missionStatus' = "paused"
            /\ msResult' = "True"
    /\ UNCHANGED msOthers

----------------------------------------------------------------------------
(* Specification SpecStart: mission start and pause calls on a link whose  *)
(* worker executes the records they enqueue.                               *)

MaxMsCalls == 3

StartInit ==
    /\ RcIdle
    /\ cmdQueue = <<>> /\ wire = <<>> /\ workerPc = "top"
    /\ isArdupilot \in BOOLEAN /\ mavType \in LinkMavTypes
    /\ nextId = 1 /\ executed = <<>> /\ wsAlive = TRUE
    /\ connected \in BOOLEAN /\ EngineIdle

StartNext ==
    \/ MissionStart(MaxMsCalls)
    \/ MissionStartMode
    \/ MissionPause(MaxMsCalls)
    \/ WorkerTop /\ LinkFrame
    \/ WorkerDrainOne /\ LinkFrame
    \/ WorkerDrainDone /\ LinkFrame
    \/ WorkerRecvNone /\ LinkFrame

SpecStart == StartInit /\ [][StartNext]_vars

\* a message that asks the vehicle to change its flight mode
IsModeChange(m) ==
    \/ m.name = "SET_MODE"
    \/ m.name = "COMMAND_LONG" /\ m.command = MAV_CMD_DO_SET_MODE

\* the worker has executed the record with this id
WasExecuted(id) == \E k \in 1..Len(executed) : executed[k] = id

\* C27: a mission start on a connected vehicle returns True with the status
\* 'running', and once the worker has executed the two records of the call
\* the wire carries MISSION_SET_CURRENT(1) and, after it, the mode-change
\* message of the call (SET_MODE for ArduPilot, COMMAND_LONG
\* MAV_CMD_DO_SET_MODE for PX4).
C27_StartSendsCurrentThenMode ==
    (msOp = "start" /\ msPc = "done" /\ msResult = "True") =>
       /\ missionStatus = "running"
       /\ WasExecuted(msFirstId + 1) =>
             \E i, j \in 1..Len(wire) :
                /\ i < j
                /\ wire[i].id = msFirstId
                /\ wire[i].name = "MISSION_SET_CURRENT" /\ wire[i].item.seq = 1
                /\ wire[j].id = msFirstId + 1
                /\ IsModeChange(wire[j])

----------------------------------------------------------------------------
(* Specification SpecLinkLive: the worker loop while other threads keep    *)
(* enqueueing commands and the vehicle keeps sending.  The producers are   *)
(* not bounded in number, only by the length of the queue; the log of      *)
(* emitted messages and the record ids are not kept here.                  *)

MaxLiveQueue == 3
MaxLiveInbox == 2

lvOthers == <<rcVars, connected, now, missionStatus, upPc, upWaypoints, upDeadline,
              upRecvStart, upResult, upFirstEvent, upCalls, requestsSent, dlVars,
              vehVars, telVars, stVars, extNoMx, mxVars, fnVars, dvVars, msVars,
              xcVars, rtVars, mdVars>>

\* some thread calls _enqueue_cmd; the record may be the one followed
LiveEnqueue ==
    /\ connected
    /\ Len(cmdQueue) < MaxLiveQueue
    /\ cmdQueue' = QueuePut(cmdQueue, Cmd(nextId, "arm", "direct", <<>>, "", NoAxes, NoItem))
    /\ \E follow \in BOOLEAN :
          lvTracked' = IF follow /\ lvTracked = 0 THEN Len(cmdQueue) + 1 ELSE lvTracked
    /\ UNCHANGED <<linkRest, nextId, linkRx, missionInbox, lvOthers>>

\* _run_loop, one turn of `while not self._cmd_queue.empty()`
LiveDrainOne ==
    /\ connected
    /\ workerPc = "drain"
    /\ cmdQueue # <<>>
    /\ cmdQueue' = QueueRest(cmdQueue)
    /\ lvTracked' = IF lvTracked > 0 THEN lvTracked - 1 ELSE 0
    /\ UNCHANGED <<linkRest, nextId, linkRx, missionInbox, lvOthers>>

\* a message from the vehicle becomes available on the transport
LiveArrive ==
    /\ connected
    /\ linkRx = <<>>
    /\ \E msg \in {MissionAck(MAV_MISSION_ACCEPTED), MissionRequestInt(0)} :
          linkRx' = << msg >>
    /\ UNCHANGED <<linkVars, missionInbox, lvTracked, lvOthers>>

\* a mission thread takes a message with recv_mission_msg
LiveReadInbox ==
    /\ missionInbox # <<>>
    /\ missionInbox' = Tail(missionInbox)
    /\ UNCHANGED <<linkVars, linkRx, lvTracked, lvOthers>>

\* the steps of the worker thread
LiveWorkerStep ==
    \/ WorkerTop /\ LinkFrame
    \/ LiveDrainOne
    \/ WorkerDrainDone /\ LinkFrame
    \/ WorkerRecvNone /\ LinkFrame
    \/ Len(missionInbox) < MaxLiveInbox /\ WorkerRecvMission /\ UNCHANGED rcVars

LinkLiveInit ==
    /\ RcIdle /\ LinkIdle /\ EngineIdle
    /\ connected = TRUE

LinkLiveNext ==
    \/ LiveEnqueue
    \/ LiveArrive
    \/ LiveReadInbox
    \/ LiveWorkerStep

\* the worker thread and the mission thread are scheduled; the producers
\* and the vehicle are under no obligation
LinkLiveFairness ==
    /\ WF_vars(LiveWorkerStep)
    /\ WF_vars(LiveReadInbox)

SpecLinkLive == LinkLiveInit /\ [][LinkLiveNext]_vars /\ LinkLiveFairness

\* every command enqueued is eventually executed
LiveCommandExecuted == (lvTracked > 0) ~> (lvTracked = 0)

\* a message available on the transport is eventually read and handled
LiveInboundRead == (linkRx # <<>>) ~> (linkRx = <<>>)

\* C28: the worker's TX scheduling does not starve the receiver: while the
\* link runs, a message available on the transport is eventually read and
\* handled even when other threads keep enqueueing commands, and every
\* command enqueued is eventually executed.
C28_NoStarvation == LiveInboundRead /\ LiveCommandExecuted

----------------------------------------------------------------------------
(* Specification SpecFailOpen: the entry points and the worker when the    *)
(* transport may raise on any send.                                        *)

\* _execute_cmd(cmd_type, kwargs) when the body raises or not: what reaches
\* the wire, and whether the exception leaves _execute_cmd.  The body is
\* inside `try: ... except Exception as e: print(...)`.
ExecuteGuardedNoExcept(cmd, raises) ==
    [sent |-> IF raises THEN << >> ELSE ExecuteCmd(cmd), propagates |-> raises]
ExecuteGuarded(cmd, raises) ==
    [sent |-> IF raises THEN << >> ELSE ExecuteCmd(cmd), propagates |-> FALSE]

xcOthers == <<rcVars, upVars, dlVars, vehVars, telVars, stVars, extNoMx, mxVars,
              fnVars, dvVars, msVars, lvVars, rtVars, mdVars>>

\* _run_loop, one turn of the drain loop: get_nowait, _execute_cmd.  An
\* exception that leaves _execute_cmd is caught by nothing in the loop
\* (`except queue.Empty` only) and ends the thread.
FailOpenDrainOne ==
    /\ connected /\ xcAlive
    /\ workerPc = "drain"
    /\ cmdQueue # <<>>
    /\ \E raises \in BOOLEAN :
          LET cmd == QueueGet(cmdQueue)
              out == ExecuteGuarded(cmd, raises)
          IN  /\ wire' = wire \o out.sent
              /\ executed' = Append(executed, cmd.id)
              /\ xcFailed' = IF raises THEN xcFailed \cup {cmd.id} ELSE xcFailed
              /\ xcAlive' = ~out.propagates
    /\ cmdQueue' = QueueRest(cmdQueue)
    /\ UNCHANGED <<workerPc, isArdupilot, mavType, nextId, wsAlive, xcOthers>>

FailOpenInit ==
    /\ RcIdle
    /\ cmdQueue = <<>> /\ wire = <<>> /\ workerPc = "top"
    /\ isArdupilot \in BOOLEAN /\ mavType \in LinkMavTypes
    /\ nextId = 1 /\ executed = <<>> /\ wsAlive = TRUE
    /\ connected = TRUE /\ EngineIdle

FailOpenNext ==
    \/ Arm /\ LinkFrame
    \/ Disarm /\ LinkFrame
    \/ SetMode /\ LinkFrame
    \/ xcAlive /\ WorkerTop /\ LinkFrame
    \/ FailOpenDrainOne
    \/ xcAlive /\ WorkerDrainDone /\ LinkFrame
    \/ xcAlive /\ WorkerRecvNone /\ LinkFrame

SpecFailOpen == FailOpenInit /\ [][FailOpenNext]_vars

\* the ids of the messages on the wire, in order
WireIds == [i \in 1..Len(wire) |-> wire[i].id]

\* C29: an error raised while executing one command record is caught and
\* dropped: the worker thread keeps running, the record sends nothing, and
\* the records queued after it are still executed in the order they were
\* enqueued; no entry point has a failing outcome because of it (a call
\* returns once its record is on the queue).
C29_FailOpen ==
    /\ xcAlive
    /\ \A k \in 1..Len(executed) : executed[k] = k
    /\ \A k \in 1..Len(cmdQueue) : cmdQueue[k].id = Len(executed) + k
    /\ Len(executed) + Len(cmdQueue) = nextId - 1
    /\ \A i \in 1..Len(wire) :
          /\ wire[i].id \notin xcFailed
          /\ WasExecuted(wire[i].id)
          /\ \A j \in 1..Len(wire) : i < j => wire[i].id < wire[j].id
    /\ Len(wire) <= Len(executed) - Cardinality(xcFailed)

\* the execution of the first record raised, and the two records queued
\* behind it were executed and reached the wire
C29_Witness ==
    /\ xcFailed = {1}
    /\ Len(executed) = 3
    /\ WireIds = <<2, 3>>

----------------------------------------------------------------------------
(* Specification SpecRouter: _handle_message of one connection fed with    *)
(* frames from its own vehicle and from another system on the same link.   *)

MaxFrames == 3

RtSystems    == {1, 2}
RtComponents == {1, 100}
RtValues     == {1, 2}

RtMissionTypes ==
    {"MISSION_REQUEST_INT", "MISSION_REQUEST", "MISSION_ACK", "MISSION_COUNT",
     "MISSION_ITEM_INT"}

RtTelTypes ==
    {"ATTITUDE", "GLOBAL_POSITION_INT", "GPS_RAW_INT", "VFR_HUD", "SYS_STATUS",
     "MISSION_CURRENT"}

RtFrameTypes == {"HEARTBEAT", "PARAM_VALUE", "MISSION_ACK", "MISSION_ITEM_INT"} \cup RtTelTypes

RtFrames ==
    [type : RtFrameTypes, src : RtSystems, comp : RtComponents, val : RtValues]

\* msg.lat / 1e7, kept as the exact quotient
Div1e7(v) == [num |-> v, den |-> 10000000]

\* the telemetry field a message type is recorded in here, and its value
RtTelField(type) ==
    CASE type = "ATTITUDE"            -> "roll"
      [] type = "GLOBAL_POSITION_INT" -> "lat"
      [] type = "GPS_RAW_INT"         -> "fix_type"
      [] type = "VFR_HUD"             -> "heading"
      [] type = "SYS_STATUS"          -> "remaining"
      [] type = "MISSION_CURRENT"     -> "mission_seq"

RtTelValue(frame) ==
    IF frame.type = "GLOBAL_POSITION_INT" THEN Div1e7(frame.val) ELSE frame.val

rtOthers == <<rcVars, linkVars, upVars, dlVars, vehVars, telVars, stVars, extNoMx,
              mxVars, fnVars, dvVars, msVars, lvVars, xcVars, mdVars>>

\* _handle_message(msg)
RtHandleMessage(bound) ==
    /\ rtCount < bound
    /\ \E frame \in RtFrames :
          /\ rtLast' = frame
          /\ rtCount' = rtCount + 1
          /\ CASE frame.type \in RtMissionTypes ->
                    /\ rtInbox' = Append(rtInbox, frame)
                    /\ UNCHANGED <<rtTel, rtParams, rtComponents>>
               [] frame.type = "PARAM_VALUE" ->
                    /\ rtParams' = [rtParams EXCEPT !["WPNAV_SPEED"] = frame.val]
                    /\ UNCHANGED <<rtTel, rtInbox, rtComponents>>
               [] frame.type = "HEARTBEAT" ->
                    /\ rtComponents' = rtComponents \cup {<<frame.src, frame.comp>>}
                    /\ rtTel' = IF frame.src # rtTarget.sys \/ frame.comp # rtTarget.comp
                                THEN rtTel
                                ELSE [rtTel EXCEPT !["armed"] = frame.val]
                    /\ UNCHANGED <<rtParams, rtInbox>>
               [] OTHER ->
                    /\ rtTel' = [rtTel EXCEPT ![RtTelField(frame.type)] = RtTelValue(frame)]
                    /\ UNCHANGED <<rtParams, rtInbox, rtComponents>>
    /\ UNCHANGED <<rtTarget, rtOthers>>

RouterInit ==
    /\ RcIdle /\ LinkIdle /\ EngineIdle
    /\ connected = TRUE

RouterNext == RtHandleMessage(MaxFrames)

SpecRouter == RouterInit /\ [][RouterNext]_vars

\* C30: a message whose source system differs from the vehicle's
\* target_system never changes that vehicle's state: handling it leaves the
\* telemetry snapshot, the parameter table and the mission inbox as they
\* were.
C30_ForeignFramesIgnored ==
    [][(rtCount' # rtCount /\ rtLast'.src # rtTarget.sys)
          => UNCHANGED <<rtTel, rtParams, rtInbox>>]_vars

----------------------------------------------------------------------------
(* Telemetry: _handle_message's locked block, get_telemetry, connect and   *)
(* disconnect (drone.py), and the broadcaster's read of the generation     *)
(* counter (main.py)                                                       *)

\* the fields one message's branch assigns, in order; every field of one
\* message is given the message's serial number as its value
Assigns(type) ==
    CASE type = "ATTITUDE" ->
            <<"roll", "pitch", "yaw", "rollspeed", "pitchspeed", "yawspeed">>
      [] type = "GLOBAL_POSITION_INT" -> <<"lat", "lon", "alt", "alt_msl">>
      [] OTHER -> <<>>

TelMsgTypes == {"ATTITUDE", "GLOBAL_POSITION_INT"}

\* connect's assignments under the lock
ConnectAssigns == <<"autopilot", "platform_type">>

upRest == <<now, linkRx, missionInbox, missionStatus, upPc, upWaypoints, upDeadline,
            upRecvStart, upResult, upFirstEvent, upCalls, requestsSent>>

TelFrame == UNCHANGED <<rcVars, linkVars, upRest, dlVars, vehVars, stVars, extVars>>

\* whether a thread asking for the lock gets it
MayEnterAlways(lock) == TRUE
MayEnter(lock) == lock = "free"
WorkerMayEnter(lock) == MayEnter(lock)
ReaderMayEnter(lock) == MayEnter(lock)

\* `with self._lock:` entered
Acquire(who) == telLock' = IF telLock = "free" THEN who ELSE telLock
\* `with self._lock:` left
Release(who) == telLock' = IF telLock = who THEN "free" ELSE telLock

\* _handle_message reaches `with self._lock:` with a telemetry message
HandleAcquire(bound) ==
    /\ hmPc = 0 /\ connected /\ telCount < bound
    /\ WorkerMayEnter(telLock)
    /\ Acquire("worker")
    /\ \E t \in TelMsgTypes : hmMsg' = [type |-> t, val |-> telCount + 1]
    /\ hmPc' = 1
    /\ telCount' = telCount + 1
    /\ UNCHANGED <<tel, telGen, rdPc, rdNext, rdSnap, rdRaced, rdCount, ctlPc,
                   ctlNext, ctlCount, bcState, connected>>

\* one assignment `self._telemetry.<field> = ...` of the branch
HandleAssign ==
    /\ hmPc >= 1 /\ hmPc <= Len(Assigns(hmMsg.type))
    /\ tel' = [tel EXCEPT ![Assigns(hmMsg.type)[hmPc]] = hmMsg.val]
    /\ hmPc' = hmPc + 1
    /\ UNCHANGED <<telLock, telGen, hmMsg, telCount, rdPc, rdNext, rdSnap, rdRaced,
                   rdCount, ctlPc, ctlNext, ctlCount, bcState, connected>>

\* the end of the locked block
HandleRelease ==
    /\ hmPc > Len(Assigns(hmMsg.type)) /\ hmPc >= 1
    /\ Release("worker")
    /\ hmPc' = 0 /\ hmMsg' = NoTelMsg
    /\ UNCHANGED <<tel, telGen, telCount, rdPc, rdNext, rdSnap, rdRaced, rdCount,
                   ctlPc, ctlNext, ctlCount, bcState, connected>>

\* an update is half written: some of a message's fields are new, some old
HalfWritten ==
    /\ hmPc > 1 /\ hmPc <= Len(Assigns(hmMsg.type))

\* get_telemetry() is called
ReaderCall(bound) ==
    /\ rdPc = "idle" /\ rdCount < bound
    /\ rdPc' = "want"
    /\ rdRaced' = HalfWritten
    /\ rdCount' = rdCount + 1
    /\ UNCHANGED <<telLock, tel, telGen, hmPc, hmMsg, telCount, rdNext, rdSnap,
                   ctlPc, ctlNext, ctlCount, bcState, connected>>

\* get_telemetry enters `with self._lock:`
ReaderAcquire ==
    /\ rdPc = "want"
    /\ ReaderMayEnter(telLock)
    /\ Acquire("reader")
    /\ rdPc' = "read" /\ rdNext' = 1
    /\ UNCHANGED <<tel, telGen, hmPc, hmMsg, telCount, rdSnap, rdRaced, rdCount,
                   ctlPc, ctlNext, ctlCount, bcState, connected>>

\* to_dict reads one field
ReaderRead ==
    /\ rdPc = "read" /\ rdNext <= Len(TelFields)
    /\ rdSnap' = [rdSnap EXCEPT ![TelFields[rdNext]] = tel[TelFields[rdNext]]]
    /\ rdNext' = rdNext + 1
    /\ UNCHANGED <<telLock, tel, telGen, hmPc, hmMsg, telCount, rdPc, rdRaced,
                   rdCount, ctlPc, ctlNext, ctlCount, bcState, connected>>

\* to_dict returns and the lock is released
ReaderRelease ==
    /\ rdPc = "read" /\ rdNext > Len(TelFields)
    /\ Release("reader")
    /\ rdPc' = "done"
    /\ UNCHANGED <<tel, telGen, hmPc, hmMsg, telCount, rdNext, rdSnap, rdRaced,
                   rdCount, ctlPc, ctlNext, ctlCount, bcState, connected>>

\* the caller takes the snapshot
ReaderReturn ==
    /\ rdPc = "done"
    /\ rdPc' = "idle"
    /\ UNCHANGED <<telLock, tel, telGen, hmPc, hmMsg, telCount, rdNext, rdSnap,
                   rdRaced, rdCount, ctlPc, ctlNext, ctlCount, bcState, connected>>

\* connect(), after the handshake: `with self._lock:` entered
ConnectAcquire(bound) ==
    /\ ctlPc = "idle" /\ ~connected /\ ctlCount < bound
    /\ MayEnter(telLock)
    /\ Acquire("ctl")
    /\ ctlPc' = "conn" /\ ctlNext' = 1
    /\ ctlCount' = ctlCount + 1
    /\ UNCHANGED <<tel, telGen, hmPc, hmMsg, telCount, rdPc, rdNext, rdSnap,
                   rdRaced, rdCount, bcState, connected>>

\* connect(): one of the two assignments under the lock
ConnectAssign ==
    /\ ctlPc = "conn" /\ ctlNext <= Len(ConnectAssigns)
    /\ tel' = [tel EXCEPT ![ConnectAssigns[ctlNext]] = ctlCount]
    /\ ctlNext' = ctlNext + 1
    /\ UNCHANGED <<telLock, telGen, hmPc, hmMsg, telCount, rdPc, rdNext, rdSnap,
                   rdRaced, rdCount, ctlPc, ctlCount, bcState, connected>>

\* connect(): the lock is released, _connected set and the worker started
ConnectRelease ==
    /\ ctlPc = "conn" /\ ctlNext > Len(ConnectAssigns)
    /\ Release("ctl")
    /\ ctlPc' = "idle"
    /\ connected' = TRUE
    /\ UNCHANGED <<tel, telGen, hmPc, hmMsg, telCount, rdPc, rdNext, rdSnap,
                   rdRaced, rdCount, ctlNext, ctlCount, bcState>>

\* disconnect(): _running and _connected cleared; join(timeout=3) may return
\* while the worker is still inside a handler
DisconnectCall ==
    /\ ctlPc = "idle" /\ connected
    /\ connected' = FALSE
    /\ ctlPc' = "disc"
    /\ UNCHANGED <<telLock, tel, telGen, hmPc, hmMsg, telCount, rdPc, rdNext,
                   rdSnap, rdRaced, rdCount, ctlNext, ctlCount, bcState>>

\* disconnect(): `with self._lock: self._telemetry = TelemetryState()`
DisconnectReset ==
    /\ ctlPc = "disc"
    /\ MayEnter(telLock)
    /\ tel' = TelDefaults
    /\ ctlPc' = "idle"
    /\ UNCHANGED <<telLock, telGen, hmPc, hmMsg, telCount, rdPc, rdNext, rdSnap,
                   rdRaced, rdCount, ctlNext, ctlCount, bcState, connected>>

\* telemetry_broadcast: `gen = drone.telemetry_generation`
BroadcastReadGeneration ==
    /\ bcState = "run" /\ connected
    /\ bcState' = IF telGen = NoAttr THEN "AttributeError" ELSE "run"
    /\ UNCHANGED <<telLock, tel, telGen, hmPc, hmMsg, telCount, rdPc, rdNext,
                   rdSnap, rdRaced, rdCount, ctlPc, ctlNext, ctlCount, connected>>

----------------------------------------------------------------------------
(* Specification SpecTelemetry: the worker handling telemetry messages,    *)
(* callers of get_telemetry, connect / disconnect and the broadcaster, all *)
(* interleaved at the grain of single assignments and reads.               *)

MaxTelMsgs  == 2
MaxReads    == 2
MaxConnects == 2

TelInit ==
    /\ RcIdle /\ LinkIdle /\ EngineIdle
    /\ connected = FALSE

TelNext ==
    \/ HandleAcquire(MaxTelMsgs) /\ TelFrame
    \/ HandleAssign /\ TelFrame
    \/ HandleRelease /\ TelFrame
    \/ ReaderCall(MaxReads) /\ TelFrame
    \/ ReaderAcquire /\ TelFrame
    \/ ReaderRead /\ TelFrame
    \/ ReaderRelease /\ TelFrame
    \/ ReaderReturn /\ TelFrame
    \/ ConnectAcquire(MaxConnects) /\ TelFrame
    \/ ConnectAssign /\ TelFrame
    \/ ConnectRelease /\ TelFrame
    \/ DisconnectCall /\ TelFrame
    \/ DisconnectReset /\ TelFrame
    \/ BroadcastReadGeneration /\ TelFrame

SpecTelemetry == TelInit /\ [][TelNext]_vars

\* --- C8 ---
\* C8: the telemetry_generation counter never decreases, and every step of
\* the message handler that changes a telemetry field leaves the counter
\* higher than it was, so that comparing it with the last value seen
\* detects the update.
C8_GenerationBumped ==
    [][/\ telGen' >= telGen
       /\ (hmPc >= 1 /\ tel' # tel) => (telGen # NoAttr /\ telGen' > telGen)]_vars

\* --- C9 ---
\* the fields one update writes together
TelGroups ==
    { {"roll", "pitch", "yaw", "rollspeed", "pitchspeed", "yawspeed"},
      {"lat", "lon", "alt", "alt_msl"},
      {"autopilot", "platform_type"} }

\* C9: a snapshot returned by get_telemetry never mixes fields of different
\* updates within one group of fields written together: all fields of a
\* group carry the value of the same update (or of the same reset).
C9_NoFieldTearing ==
    rdPc = "done" =>
        \A g \in TelGroups : \A f1 \in g : \A f2 \in g : rdSnap[f1] = rdSnap[f2]

\* a get_telemetry call made while an update was half written has returned
\* a snapshot that holds that update
C9_Witness ==
    /\ rdPc = "done" /\ rdRaced
    /\ rdSnap["roll"] > 0 /\ rdSnap["yawspeed"] > 0

----------------------------------------------------------------------------
(* Status text: the STATUSTEXT branch of _handle_message and               *)
(* drain_statustext (drone.py)                                             *)

TicksPerSec == 2

\* `if now - prev['time'] > 1.0: break`
DedupWindow == TicksPerSec

\* `if len(self._statustext_queue) > 100`
StatusKeep == 100

\* the scan `for prev in reversed(self._statustext_queue)`, from entry i down
\* an entry k at or below i matches, and the scan reaches it: no entry from
\* i down to k is older than the window
IsDuplicateFrom(queue, i, key, t) ==
    \E k \in 1..i :
       /\ queue[k].text = key[2] /\ queue[k].severity = key[1]
       /\ \A j \in k..i : ~(t - queue[j].time > DedupWindow)

IsDuplicate(queue, key, t) == IsDuplicateFrom(queue, Len(queue), key, t)

\* self._statustext_queue[-100:]
KeepLast(queue) ==
    IF Len(queue) > StatusKeep
    THEN SubSeq(queue, Len(queue) - StatusKeep + 1, Len(queue))
    ELSE queue

StFrame == UNCHANGED <<rcVars, linkVars, upVars, dlVars, vehVars, telVars, extVars>>

\* _handle_message on a STATUSTEXT
StatusTextArrives(bound) ==
    /\ stCount < bound
    /\ \E key \in StKeys :
          LET dup == IsDuplicate(stQueue, key, stNow)
          IN  /\ stQueue' = IF dup THEN stQueue
                            ELSE KeepLast(Append(stQueue,
                                     [severity |-> key[1], text |-> key[2],
                                      time |-> stNow]))
              /\ stEvent' = [key |-> key, time |-> stNow, prev |-> stLast[key],
                             enqueued |-> ~dup]
              /\ stLast' = [stLast EXCEPT ![key] = stNow]
    /\ stCount' = stCount + 1
    /\ UNCHANGED stNow

\* drain_statustext
DrainStatustext ==
    /\ stQueue # <<>>
    /\ stQueue' = <<>>
    /\ UNCHANGED <<stNow, stLast, stEvent, stCount>>

\* one tick of the clock passes
StTick(bound) ==
    /\ stNow < bound
    /\ stNow' = stNow + 1
    /\ UNCHANGED <<stQueue, stLast, stEvent, stCount>>

----------------------------------------------------------------------------
(* Specification SpecStatus: STATUSTEXT arrivals, consumers draining the   *)
(* queue, and the clock.                                                   *)

MaxStatus == 4
MaxStTime == 4

StInit ==
    /\ RcIdle /\ LinkIdle /\ EngineIdle
    /\ connected = TRUE

StNext ==
    \/ StatusTextArrives(MaxStatus) /\ StFrame
    \/ DrainStatustext /\ StFrame
    \/ StTick(MaxStTime) /\ StFrame

SpecStatus == StInit /\ [][StNext]_vars

\* --- C10 ---
\* C10: a STATUSTEXT that arrives less than one second after an earlier
\* STATUSTEXT with the same (severity, text) is not enqueued, whatever
\* drain_statustext calls happened in between.
C10_DuplicateNotEnqueued ==
    (stEvent.prev # Never /\ stEvent.time - stEvent.prev < TicksPerSec)
        => ~stEvent.enqueued

----------------------------------------------------------------------------
(* The COMMAND_ACK branch of _handle_message: calibration feedback put on  *)
(* the status-text queue.                                                  *)

MAV_CMD_PREFLIGHT_CALIBRATION == 241
MAV_CMD_NAV_TAKEOFF == 22

\* result_texts.get(result, (f"Calibration result: {result}", 4)) as
\* <<severity, text>>
CalibrationText(result) ==
    CASE result = 0 -> <<6, "Calibration accepted">>
      [] result = 1 -> <<4, "Calibration temporarily rejected - try again">>
      [] result = 2 -> <<3, "Calibration denied">>
      [] result = 3 -> <<4, "Calibration unsupported">>
      [] result = 4 -> <<3, "Calibration failed">>
      [] result = 5 -> <<6, "Calibration in progress">>
      [] result = 6 -> <<4, "Calibration cancelled">>
      [] OTHER      -> <<4, "Calibration result: N">>

\* what the COMMAND_ACK branch leaves in the queue after its append
AckKeep(queue) == queue

AckCommands == {MAV_CMD_PREFLIGHT_CALIBRATION, MAV_CMD_NAV_TAKEOFF}
AckResults  == {0}

\* _handle_message on a COMMAND_ACK
CommandAckArrives(bound) ==
    /\ Len(stQueue) < bound
    /\ \E command \in AckCommands, result \in AckResults :
          IF command = MAV_CMD_PREFLIGHT_CALIBRATION
          THEN LET key == CalibrationText(result)
               IN  /\ stQueue' = AckKeep(Append(stQueue,
                                     [severity |-> key[1], text |-> key[2],
                                      time |-> stNow]))
                   /\ stEvent' = [key |-> key, time |-> stNow, prev |-> Never,
                                  enqueued |-> TRUE]
          ELSE UNCHANGED <<stQueue, stEvent>>
    /\ UNCHANGED <<stNow, stLast, stCount>>

----------------------------------------------------------------------------
(* Specification SpecRing: STATUSTEXT and COMMAND_ACK arrivals and drains  *)
(* long enough to fill the status-text queue.                              *)

MaxRingTexts == 1
MaxRingLen   == 102

RingInit ==
    /\ RcIdle /\ LinkIdle /\ EngineIdle
    /\ connected = TRUE

RingNext ==
    \/ StatusTextArrives(MaxRingTexts) /\ StFrame
    \/ CommandAckArrives(MaxRingLen) /\ StFrame
    \/ DrainStatustext /\ StFrame

SpecRing == RingInit /\ [][RingNext]_vars

\* the queue after a step holds the newest entries of the queue before it
\* followed by the entry that arrived
KeepsMostRecent ==
    stQueue' # stQueue /\ stQueue' # <<>> =>
       /\ stQueue'[Len(stQueue')].time = stNow
       /\ \E drop \in 0..Len(stQueue) :
             SubSeq(stQueue', 1, Len(stQueue') - 1)
                = SubSeq(stQueue, drop + 1, Len(stQueue))
       /\ Len(stQueue') < Len(stQueue) + 1 => Len(stQueue') = StatusKeep

\* C31: after any sequence of messages, STATUSTEXT and COMMAND_ACK for
\* PREFLIGHT_CALIBRATION included, the status-text ring holds at most 100
\* entries, and when entries were discarded the retained ones are the most
\* recent.
C31_RingBounded ==
    /\ [](Len(stQueue) <= StatusKeep)
    /\ [][KeepsMostRecent]_vars

----------------------------------------------------------------------------
(* telemetry_broadcast (main.py): adaptive rate, change detection, delta   *)
(* compression.  One drone is served; the dicts of the loop are keyed by   *)
(* drone id and the drones do not share entries.  Loop time is counted in  *)
(* ticks of 0.1 s, the period of the loop's sleep.                         *)

FULL_SYNC_INTERVAL == 50
RATE_ACTIVE == 1
RATE_ARMED  == 2
RATE_IDLE   == 10

\* groundspeed > 0.5, in mm/s
MovingAbove == 500

\* time.time() when the loop clock shows t: the two clocks differ by their
\* origins
WallOffset == 1000
WallClock(t) == t + WallOffset

\* dict.get(key, default)
DictGet(d, key, default) == IF key \in DOMAIN d THEN d[key] ELSE default

\* {**a, **b}
DictMerge(a, b) ==
    [k \in (DOMAIN a) \cup (DOMAIN b) |-> IF k \in DOMAIN b THEN b[k] ELSE a[k]]

\* round(x / 10) to the nearest integer, ties to even
RoundDiv10(x) ==
    LET q == x \div 10
        r == x % 10
    IN  IF r < 5 THEN q ELSE IF r > 5 THEN q + 1
        ELSE IF q % 2 = 0 THEN q ELSE q + 1

\* TelemetryState.to_dict at wall time `wall`: groundspeed and voltage
\* rounded to 2 decimals (cm/s, 10 mV), heartbeat_age to 1 decimal (ticks)
ToDict(d, wall) ==
    [armed |-> d.armed,
     groundspeed |-> RoundDiv10(d.groundspeed),
     voltage |-> RoundDiv10(d.voltage),
     heartbeat_age |-> IF d.last_heartbeat > 0 THEN wall - d.last_heartbeat ELSE -1]

\* the adaptive rate: min_interval from the last snapshot sent
MinIntervalFlat(prev_snap) == RATE_ACTIVE
MinIntervalArmedOnly(prev_snap) ==
    IF DictGet(prev_snap, "armed", FALSE) THEN RATE_ACTIVE ELSE RATE_IDLE
MinInterval(prev_snap) ==
    LET armed == DictGet(prev_snap, "armed", FALSE)
        groundspeed == DictGet(prev_snap, "groundspeed", 0)
    IN  IF armed /\ groundspeed * 10 > MovingAbove THEN RATE_ACTIVE
        ELSE IF armed THEN RATE_ARMED
        ELSE RATE_IDLE

\* the delta: the telemetry keys whose value differs from the last snapshot
ALWAYS_KEYS == {"type", "drone_id", "drone_name"}
DeltaOfAll(prev_snap, telemetry) == telemetry
DeltaOfNew(prev_snap, telemetry) ==
    [k \in (DOMAIN telemetry) \ (DOMAIN prev_snap) |-> telemetry[k]]
DeltaOf(prev_snap, telemetry) ==
    LET keys == { k \in DOMAIN telemetry :
                     /\ k \notin ALWAYS_KEYS
                     /\ DictGet(prev_snap, k, "None") # telemetry[k] }
    IN  [k \in keys |-> telemetry[k]]

coreVars == <<rcVars, linkVars, dlVars, vehVars, telVars, regVars, prmVars, hbVars,
              hsVars,
              pfVars, lateVars>>
upNoStatus == <<connected, now, linkRx, missionInbox, upPc, upWaypoints, upDeadline,
                upRecvStart, upResult, upFirstEvent, upCalls, requestsSent>>
stRest == <<stNow, stLast, stEvent, stCount>>
bcTrack == <<bcSnap, bcLastGen, bcLastMission, bcLastFull, bcLastSend, bcOut,
             bcEmits, bcEmitAt, bcAtEmit, bcClient>>

\* force_full = (now - last_full_sync.get(drone_id, 0)) >= FULL_SYNC_INTERVAL
ForceFullNever(t, last_full) == FALSE
ForceFull(t, last_full) == (t - last_full) >= FULL_SYNC_INTERVAL

\* `if not (gen_changed or mission_changed or has_statustext or force_full)`
NothingToSendButText(gen_changed, mission_changed, has_statustext, force_full) ==
    ~(gen_changed \/ mission_changed \/ force_full)
NothingToSend(gen_changed, mission_changed, has_statustext, force_full) ==
    ~(gen_changed \/ mission_changed \/ has_statustext \/ force_full)

\* the envelope: type, drone_id, drone_name, mission_status
Envelope(mission_status) ==
    [type |-> "telemetry", drone_id |-> "1", drone_name |-> "Drone 1",
     mission_status |-> mission_status]

\* one iteration of `while True` for the drone, and the sleep after it
BroadcastTick(bound) ==
    /\ bcNow < BcStart + bound /\ connected
    /\ bcNow' = bcNow + 1
    /\ LET prev_snap    == bcSnap
           min_interval == MinInterval(prev_snap)
           elapsed      == bcNow - bcLastSend
           gen          == bcDrone.gen
           status_msgs  == stQueue
           gen_changed     == gen # bcLastGen
           mission_changed == missionStatus # bcLastMission
           has_statustext  == status_msgs # <<>>
           force_full      == ForceFull(bcNow, bcLastFull)
           telemetry    == ToDict(bcDrone, WallClock(bcNow))
           full         == force_full \/ prev_snap = EmptyDict
           delta        == DictMerge(DeltaOf(prev_snap, telemetry),
                                     IF mission_changed
                                     THEN [mission_status |-> missionStatus]
                                     ELSE EmptyDict)
           message      == IF full THEN DictMerge(telemetry, [_full |-> TRUE])
                           ELSE delta
           payload      == DictMerge(DictMerge(message, Envelope(missionStatus)),
                                     IF has_statustext
                                     THEN [statustext |-> status_msgs]
                                     ELSE EmptyDict)
       IN  IF elapsed < min_interval
           THEN UNCHANGED <<bcTrack, stQueue>>
           ELSE /\ stQueue' = <<>>
                /\ IF NothingToSend(gen_changed, mission_changed, has_statustext,
                                    force_full)
                   THEN UNCHANGED bcTrack
                   ELSE IF ~full /\ DOMAIN message = {} /\ ~has_statustext
                   THEN /\ bcLastGen' = gen
                        /\ UNCHANGED <<bcSnap, bcLastMission, bcLastFull, bcLastSend,
                                       bcOut, bcEmits, bcEmitAt, bcAtEmit,
                                       bcClient>>
                   ELSE /\ bcOut' = payload
                        /\ bcSnap' = telemetry
                        /\ bcLastGen' = gen
                        /\ bcLastMission' = missionStatus
                        /\ bcLastSend' = bcNow
                        /\ bcLastFull' = IF full THEN bcNow ELSE bcLastFull
                        /\ bcEmits' = bcEmits + 1
                        /\ bcEmitAt' = bcNow
                        /\ bcAtEmit' = bcDrone
                        /\ bcClient' = DictMerge(bcClient, payload)
    /\ UNCHANGED <<coreVars, upVars, stRest, bcDrone, bcEvents>>

\* the generation counter as the spec describes it: bumped on every update
BumpGeneration(d) == [d EXCEPT !.gen = d.gen + 1]

BcArmedValues == BOOLEAN
BcSpeedValues == {0, 1000}
BcVoltValues  == {12600, 12604, 12700}

\* the worker handles a HEARTBEAT of the autopilot
BcHeartbeat(bound) ==
    /\ bcEvents < bound
    /\ \E a \in BcArmedValues :
          bcDrone' = BumpGeneration([bcDrone EXCEPT !.armed = a,
                                        !.last_heartbeat = WallClock(bcNow)])
    /\ bcEvents' = bcEvents + 1
    /\ UNCHANGED <<coreVars, upVars, stVars, bcNow, bcTrack>>

\* the worker handles a VFR_HUD
BcVfrHud(bound) ==
    /\ bcEvents < bound
    /\ \E v \in BcSpeedValues :
          bcDrone' = BumpGeneration([bcDrone EXCEPT !.groundspeed = v])
    /\ bcEvents' = bcEvents + 1
    /\ UNCHANGED <<coreVars, upVars, stVars, bcNow, bcTrack>>

\* the worker handles a SYS_STATUS
BcSysStatus(bound) ==
    /\ bcEvents < bound
    /\ \E v \in BcVoltValues :
          bcDrone' = BumpGeneration([bcDrone EXCEPT !.voltage = v])
    /\ bcEvents' = bcEvents + 1
    /\ UNCHANGED <<coreVars, upVars, stVars, bcNow, bcTrack>>

\* the mission manager's status changes (an upload starts or ends)
BcMissionStatus(bound) ==
    /\ bcEvents < bound
    /\ \E st \in {"idle", "uploading"} :
          missionStatus # st /\ missionStatus' = st
    /\ bcEvents' = bcEvents + 1
    /\ UNCHANGED <<coreVars, upNoStatus, stVars, bcNow, bcDrone, bcTrack>>

\* a STATUSTEXT reaches the queue the broadcaster drains
BcStatusText(bound) ==
    /\ StatusTextArrives(bound)
    /\ UNCHANGED <<coreVars, upVars, bcVars>>

----------------------------------------------------------------------------
(* Specification SpecBroadcast: the broadcaster serving one connected      *)
(* drone with a WebSocket client attached, while the drone's worker        *)
(* handles telemetry and status-text messages between iterations.          *)

MaxBcTime   == 12
MaxBcEvents == 2
MaxBcStatus == 1

BcInit ==
    /\ RcIdle /\ LinkIdle /\ EngineIdle
    /\ connected = TRUE

BcNext ==
    \/ BroadcastTick(MaxBcTime)
    \/ BcHeartbeat(MaxBcEvents)
    \/ BcVfrHud(MaxBcEvents)
    \/ BcSysStatus(MaxBcEvents)
    \/ BcMissionStatus(MaxBcEvents)
    \/ BcStatusText(MaxBcStatus)

SpecBroadcast == BcInit /\ [][BcNext]_vars

\* --- C11 ---
\* the interval the documented rates give a vehicle in the state it was
\* last reported in: 10 Hz armed and moving, 5 Hz armed, 1 Hz otherwise
ClaimedInterval(d) ==
    IF d.armed /\ d.groundspeed > MovingAbove THEN RATE_ACTIVE
    ELSE IF d.armed THEN RATE_ARMED
    ELSE RATE_IDLE

EnvelopeKeys == {"type", "drone_id", "drone_name", "mission_status"}

\* the TelemetryState fields whose value differs from what it was at the
\* latest emission
ChangedFields ==
    { f \in {"armed", "groundspeed", "voltage", "last_heartbeat"} :
        bcDrone[f] # bcAtEmit[f] }

PassedRateCheck == stQueue' = <<>>
HeldByRate == stQueue' = stQueue /\ bcEmits' = bcEmits /\ bcLastGen' = bcLastGen

\* the interval the documented rates give the last snapshot sent, whose
\* groundspeed is in cm/s; without a snapshot the vehicle counts as disarmed
SnapshotInterval ==
    IF bcSnap = EmptyDict THEN RATE_IDLE
    ELSE IF bcSnap.armed /\ bcSnap.groundspeed * 10 > MovingAbove THEN RATE_ACTIVE
    ELSE IF bcSnap.armed THEN RATE_ARMED
    ELSE RATE_IDLE

\* the rate check of an iteration works with the given interval
AppliesInterval(interval) ==
    bcNow' # bcNow =>
       /\ bcNow - bcLastSend < interval => HeldByRate
       /\ (bcNow - bcLastSend >= interval /\ stQueue # <<>>) => PassedRateCheck
       /\ (bcNow - bcLastSend >= interval /\ bcDrone.gen # bcLastGen)
             => bcLastGen' = bcDrone.gen

SameAsSnapshot ==
    /\ bcSnap # EmptyDict
    /\ bcSnap.armed = bcDrone.armed
    /\ bcSnap.groundspeed = RoundDiv10(bcDrone.groundspeed)
    /\ bcSnap.voltage = RoundDiv10(bcDrone.voltage)
    /\ bcSnap.heartbeat_age = ToDict(bcDrone, WallClock(bcNow)).heartbeat_age

\* an iteration that is due by the rate check and builds a delta
DeltaIteration ==
    /\ bcNow' # bcNow
    /\ bcNow - bcLastSend >= SnapshotInterval
    /\ bcNow - bcLastFull < FULL_SYNC_INTERVAL

----------------------------------------------------------------------------
(* Specification SpecFullSync: the broadcaster over more than one full-    *)
(* sync interval, with few telemetry events.                               *)

MaxFsTime   == 56
MaxFsEvents == 1

FsNext ==
    \/ BroadcastTick(MaxFsTime)
    \/ BcHeartbeat(MaxFsEvents)
    \/ BcSysStatus(MaxFsEvents)
    \/ BcMissionStatus(MaxFsEvents)

SpecFullSync == BcInit /\ [][FsNext]_vars

TelemetryKeys == {"armed", "groundspeed", "voltage", "heartbeat_age"}

IsFullPayload(payload) ==
    /\ "_full" \in DOMAIN payload /\ payload["_full"] = TRUE
    /\ TelemetryKeys \subseteq DOMAIN payload

ClientTelemetry ==
    [k \in (DOMAIN bcClient) \cap TelemetryKeys |-> bcClient[k]]

----------------------------------------------------------------------------
(* The vehicle registry (registry.py).  A Link is a DroneConnection object, *)
(* identified by the number of the conn_id it is registered under; calls    *)
(* of the registry's API are made one after another, while a Link's router  *)
(* thread, started by connect(), reports vehicles at any moment.            *)

\* index of the first entry of a dict with the given key; 0 when absent
RECURSIVE KeyIndexFrom(_, _, _)
KeyIndexFrom(d, key, i) ==
    IF i > Len(d) THEN 0
    ELSE IF d[i].key = key THEN i
    ELSE KeyIndexFrom(d, key, i + 1)

HasKey(d, key) == KeyIndexFrom(d, key, 1) # 0

\* d[key] = entry: an existing key keeps its place, a new key goes last
DictSet(d, entry) ==
    LET i == KeyIndexFrom(d, entry.key, 1)
    IN  IF i = 0 THEN Append(d, entry) ELSE [d EXCEPT ![i] = entry]

\* del d[key]
DictDel(d, key) == SelectSeq(d, LAMBDA e : e.key # key)

\* VehicleRegistry._find_conn_id
FindConnId(conns, link) == IF link \in conns THEN link ELSE UnknownConn

\* the first entry of _vehicles with the same target_system on another
\* connection; 0 when there is none
RECURSIVE CollisionFrom(_, _, _, _)
CollisionFrom(d, link, sysid, i) ==
    IF i > Len(d) THEN 0
    ELSE IF d[i].sysid = sysid /\ d[i].link # link THEN i
    ELSE CollisionFrom(d, link, sysid, i + 1)

\* VehicleRegistry._resolve_vehicle_id: the id returned, and _vehicles, the
\* renamed Vehicle's attribute and the active pointer as it leaves them
ResolveVehicleId(st, conns, link, sysid, conn_id) ==
    LET i == CollisionFrom(st.vehicles, link, sysid, 1)
    IN  IF i = 0 THEN st @@ [vid |-> Short(sysid), collided |-> FALSE]
        ELSE LET existing == st.vehicles[i]
                 vid      == existing.key
                 new_vid  == Prefixed(FindConnId(conns, existing.link), sysid)
                 renamed  ==
                     IF vid = Short(sysid)
                     THEN [vehicles |-> DictDel(DictSet(st.vehicles,
                                            [existing EXCEPT !.key = new_vid]), vid),
                           names    |-> [st.names EXCEPT
                                            ![<<existing.link, sysid>>] = new_vid],
                           active   |-> IF st.active = vid THEN new_vid
                                        ELSE st.active]
                     ELSE [vehicles |-> st.vehicles, names |-> st.names,
                           active |-> st.active]
             IN  renamed @@ [vid |-> Prefixed(conn_id, sysid), collided |-> TRUE,
                             log |-> st.log]

\* one Vehicle is given its id and stored: the body shared by the loop of
\* add_connection and by _on_vehicle_discovered
RegisterVehicle(st, conns, link, sysid, conn_id) ==
    LET r == ResolveVehicleId(st, conns, link, sysid, conn_id)
    IN  [vehicles |-> DictSet(r.vehicles,
                         [key |-> r.vid, link |-> link, sysid |-> sysid]),
         names    |-> [r.names EXCEPT ![<<link, sysid>>] = r.vid],
         active   |-> r.active,
         log      |-> Append(st.log, [link |-> link, sysid |-> sysid,
                                      collided |-> r.collided, vid |-> r.vid])]

\* the loop of add_connection over conn.get_vehicles()
RECURSIVE RegisterAll(_, _, _, _, _)
RegisterAll(st, conns, link, sysids, conn_id) ==
    IF sysids = <<>> THEN st
    ELSE RegisterAll(RegisterVehicle(st, conns, link, Head(sysids), conn_id),
                     conns, link, Tail(sysids), conn_id)

RegState ==
    [vehicles |-> regVehicles, names |-> regNames, active |-> regActive,
     log |-> <<>>]

regOthers == <<rcVars, linkVars, upVars, dlVars, vehVars, telVars, stVars, bcVars,
               prmVars, hbVars, hsVars,
              pfVars, lateVars>>

\* DroneConnection.connect() of a Link that tracks several vehicles: the
\* handshake creates the Vehicle of the first vehicle heartbeat it sees
HandshakeFinds(link, sysid) ==
    regLinkVeh' = [regLinkVeh EXCEPT ![link] = <<sysid>>]

\* the router of an open Link sees a vehicle HEARTBEAT of a system it has no
\* Vehicle for, creates one and invokes on_vehicle_discovered
LinkDiscovers(link, sysid) ==
    /\ link \notin regClosed
    /\ \A i \in 1 .. Len(regLinkVeh[link]) : regLinkVeh[link][i] # sysid
    /\ regLinkVeh' = [regLinkVeh EXCEPT ![link] = Append(@, sysid)]

\* add_connection up to the return of conn.connect(): the handshake has
\* found one vehicle and the Link's router thread is running
AddConnectionConnect(bound) ==
    /\ regPending = 0 /\ regCounter < bound
    /\ \E sysid \in Sysids :
          /\ HandshakeFinds(regCounter + 1, sysid)
          /\ regPending' = regCounter + 1
          /\ regEvent' = [op |-> "connect", link |-> regCounter + 1]
    /\ UNCHANGED <<regConns, regCounter, regVehicles, regNames, regActive, regClosed>>
    /\ UNCHANGED regOthers

\* add_connection when conn.connect() fails
AddConnectionFails ==
    /\ regPending = 0
    /\ regEvent' = [op |-> "add_failed"]
    /\ regEvent # regEvent'
    /\ UNCHANGED <<regConns, regCounter, regVehicles, regNames, regActive,
                   regLinkVeh, regPending, regClosed>>
    /\ UNCHANGED regOthers

\* add_connection from `with self._lock` to its return
AddConnectionRegister ==
    /\ regPending # 0
    /\ LET conn_id == regCounter + 1
           conns   == regConns \cup {conn_id}
           st      == RegisterAll(RegState, conns, regPending,
                                  regLinkVeh[regPending], conn_id)
           first   == st.log[1].vid
       IN  /\ regCounter' = conn_id
           /\ regConns' = conns
           /\ regVehicles' = st.vehicles
           /\ regNames' = st.names
           /\ regActive' = IF st.active = NoVid /\ st.log # <<>> THEN first
                           ELSE st.active
           /\ regEvent' = [op |-> "add", link |-> regPending, log |-> st.log,
                           active |-> regActive]
    /\ regPending' = 0
    /\ UNCHANGED <<regLinkVeh, regClosed>>
    /\ UNCHANGED regOthers

\* the router thread of a Link sees the first HEARTBEAT of another vehicle
\* and calls on_vehicle_discovered
OnVehicleDiscovered ==
    /\ \E link \in regConns \cup ({regPending} \ {0}) :
       \E sysid \in Sysids :
          /\ LinkDiscovers(link, sysid)
          /\ LET st == RegisterVehicle(RegState, regConns, link, sysid,
                                       FindConnId(regConns, link))
             IN  /\ regVehicles' = st.vehicles
                 /\ regNames' = st.names
                 /\ regActive' = IF st.active = NoVid THEN st.log[1].vid
                                 ELSE st.active
                 /\ regEvent' = [op |-> "discovered", link |-> link,
                                 log |-> st.log, active |-> regActive]
    /\ UNCHANGED <<regConns, regCounter, regPending, regClosed>>
    /\ UNCHANGED regOthers

\* the test of remove_connection: _connections.pop(conn_id, None) is not None
RemoveFoundAlways(conn_id) == TRUE
RemoveFound(conn_id) == conn_id \in regConns

\* the active pointer after an eviction
KeepActive(active, to_remove, remaining) == active
FallbackActive(active, to_remove, remaining) ==
    IF \E i \in 1 .. Len(to_remove) : to_remove[i].key = active
    THEN IF remaining # <<>> THEN remaining[1].key ELSE NoVid
    ELSE active

\* remove_connection(conn_id)
RemoveConnection ==
    /\ regPending = 0
    /\ \E conn_id \in Links :
          IF ~RemoveFound(conn_id)
          THEN /\ regEvent' = [op |-> "remove", conn_id |-> conn_id, ok |-> FALSE]
               /\ regEvent # regEvent'
               /\ UNCHANGED <<regConns, regVehicles, regActive, regClosed>>
          ELSE LET to_remove == SelectSeq(regVehicles, LAMBDA e : e.link = conn_id)
                   remaining == SelectSeq(regVehicles, LAMBDA e : e.link # conn_id)
               IN  /\ regConns' = regConns \ {conn_id}
                   /\ regVehicles' = remaining
                   /\ regActive' = FallbackActive(regActive, to_remove, remaining)
                   /\ regClosed' = regClosed \cup {conn_id}
                   /\ regEvent' = [op |-> "remove", conn_id |-> conn_id, ok |-> TRUE,
                                   active |-> regActive]
    /\ UNCHANGED <<regCounter, regNames, regLinkVeh, regPending>>
    /\ UNCHANGED regOthers

\* the ids a caller may pass: every id the registry can have given out
VidArgs == { Short(s) : s \in Sysids } \cup
           { Prefixed(c, s) : c \in 0 .. MaxConns, s \in Sysids }

\* set_active_vehicle(vehicle_id)
SetActiveVehicle ==
    /\ regPending = 0
    /\ \E vehicle_id \in VidArgs :
          LET ok == HasKey(regVehicles, vehicle_id)
          IN  /\ regActive' = IF ok THEN vehicle_id ELSE regActive
              /\ regEvent' = [op |-> "set_active", vehicle_id |-> vehicle_id,
                              ok |-> ok, active |-> regActive]
              /\ regEvent # regEvent' \/ regActive # regActive'
    /\ UNCHANGED <<regConns, regCounter, regVehicles, regNames, regLinkVeh,
                   regPending, regClosed>>
    /\ UNCHANGED regOthers

RegInit ==
    /\ RcIdle /\ LinkIdle /\ EngineIdle
    /\ connected = FALSE

RegNext ==
    \/ AddConnectionConnect(MaxConns)
    \/ AddConnectionFails
    \/ AddConnectionRegister
    \/ OnVehicleDiscovered
    \/ RemoveConnection
    \/ SetActiveVehicle

SpecRegistry == RegInit /\ [][RegNext]_vars

C13_RemoveUnknownNoOp ==
    [][(regEvent'.op = "remove" /\ regEvent'.conn_id \notin regConns) =>
          /\ regEvent'.ok = FALSE
          /\ UNCHANGED <<regConns, regVehicles, regActive, regClosed>>]_vars

\* a connection that was removed before is removed again while another
\* connection's vehicle is registered
C13_Witness ==
    /\ regEvent.op = "remove" /\ ~regEvent.ok
    /\ regEvent.conn_id \in regClosed
    /\ regVehicles # <<>> /\ regConns # {}

\* --- C37 ---
\* the entries of _vehicles that hold the Vehicle of a Link and system id
EntriesOf(link, sysid) ==
    { j \in 1 .. Len(regVehicles) :
         regVehicles[j].link = link /\ regVehicles[j].sysid = sysid }

----------------------------------------------------------------------------
(* disarm called twice (drone.py disarm, _execute_cmd; the vehicle is the   *)
(* mock of sitl/mock_drone.py), under SpecLink.                             *)

IsArmDisarm(m) == m.name = "COMMAND_LONG" /\ m.command = MAV_CMD_COMPONENT_ARM_DISARM
IsDisarmMsg(m) == IsArmDisarm(m) /\ m.p1 = 0

\* MockDrone._handle_command_long, command 400: the armed flag it leaves;
\* the toggling variant stands for a vehicle on which a repeated disarm
\* is not harmless
MockCommandLongToggle(armed, m) ==
    IF IsArmDisarm(m) THEN (IF m.p1 = 1 THEN TRUE ELSE ~armed) ELSE armed
MockCommandLong(armed, m) ==
    IF IsArmDisarm(m) THEN (m.p1 = 1) ELSE armed

\* the vehicle's armed flag after it has handled the messages of w in order
RECURSIVE MockArmedAfter(_, _)
MockArmedAfter(armed, w) ==
    IF w = <<>> THEN armed
    ELSE MockArmedAfter(MockCommandLong(armed, Head(w)), Tail(w))

\* the worker executes a disarm command right after another disarm command
SecondDisarmExecuted ==
    /\ workerPc = "drain" /\ cmdQueue # <<>> /\ executed' # executed
    /\ QueueGet(cmdQueue).type = "disarm"
    /\ executed # <<>> /\ wire # <<>>
    /\ IsDisarmMsg(wire[Len(wire)])
    /\ wire[Len(wire)].id = executed[Len(executed)]

\* C14: two consecutive disarm calls have the observable outcome of a single
\* call: the second call emits no further message to the vehicle and
\* leaves the vehicle's state as the first left it.
C14_DisarmTwiceAsOnce ==
    [][SecondDisarmExecuted =>
          /\ wire' = wire
          /\ \A a \in BOOLEAN : MockArmedAfter(a, wire') = MockArmedAfter(a, wire)]_vars

\* C14 (amended): each of two consecutive disarm calls emits its own
\* COMMAND_LONG(ARM_DISARM, param1 = 0), the second equal to the first, and
\* the vehicle is left disarmed as after the first.
C14_DisarmTwiceSameState ==
    [][SecondDisarmExecuted =>
          /\ Len(wire') = Len(wire) + 1
          /\ SubSeq(wire', 1, Len(wire)) = wire
          /\ [wire'[Len(wire')] EXCEPT !.id = 0] = [wire[Len(wire)] EXCEPT !.id = 0]
          /\ \A a \in BOOLEAN :
                /\ MockArmedAfter(a, wire') = MockArmedAfter(a, wire)
                /\ MockArmedAfter(a, wire') = FALSE]_vars

\* two disarm commands were executed one after the other
C14_Witness ==
    /\ Len(wire) >= 2 /\ Len(executed) >= 2
    /\ IsDisarmMsg(wire[Len(wire)]) /\ IsDisarmMsg(wire[Len(wire) - 1])
    /\ wire[Len(wire)].id = executed[Len(executed)]
    /\ wire[Len(wire) - 1].id = executed[Len(executed) - 1]

----------------------------------------------------------------------------
(* The parameter API (main.py api_params_set, drone.py set_param and the    *)
(* set_param branch of _execute_cmd).  A parameter name is the sequence of  *)
(* its characters.                                                          *)

LowerLetters == <<"a", "b", "c", "d", "e", "f", "g", "h", "i", "j", "k", "l", "m", "n", "o", "p", "q", "r", "s", "t", "u", "v", "w", "x", "y", "z">>
UpperLetters == <<"A", "B", "C", "D", "E", "F", "G", "H", "I", "J", "K", "L", "M", "N", "O", "P", "Q", "R", "S", "T", "U", "V", "W", "X", "Y", "Z">>

\* str.upper() on one character and on a name
UpperChar(c) ==
    IF \E i \in DOMAIN LowerLetters : LowerLetters[i] = c
    THEN UpperLetters[CHOOSE i \in DOMAIN LowerLetters : LowerLetters[i] = c]
    ELSE c
StrUpper(name) == [i \in DOMAIN name |-> UpperChar(name[i])]

\* str.startswith
StartsWith(name, prefix) ==
    /\ Len(name) >= Len(prefix)
    /\ SubSeq(name, 1, Len(prefix)) = prefix

\* CRITICAL_PARAM_PREFIXES, in the order of the dict
CRITICAL_PARAM_PREFIXES ==
    << [prefix |-> <<"B", "A", "T", "T", "_">>, category |-> "battery"],
       [prefix |-> <<"F", "S", "_">>, category |-> "failsafe"],
       [prefix |-> <<"A", "R", "M", "I", "N", "G", "_">>, category |-> "arming checks"],
       [prefix |-> <<"M", "O", "T", "_">>, category |-> "motors"],
       [prefix |-> <<"I", "N", "S", "_">>, category |-> "inertial sensors"] >>

\* the first prefix of the table the upper-cased name starts with; 0 if none
RECURSIVE CriticalIndexFrom(_, _)
CriticalIndexFrom(param_upper, i) ==
    IF i > Len(CRITICAL_PARAM_PREFIXES) THEN 0
    ELSE IF StartsWith(param_upper, CRITICAL_PARAM_PREFIXES[i].prefix) THEN i
    ELSE CriticalIndexFrom(param_upper, i + 1)

\* the names the API is called with
ParamNames ==
    { <<"B", "A", "T", "T", "_", "C", "A", "P", "A", "C", "I", "T", "Y">>,
      <<"F", "S", "_", "T", "H", "R", "_", "E", "N", "A", "B", "L", "E">>,
      <<"A", "R", "M", "I", "N", "G", "_", "C", "H", "E", "C", "K">>,
      <<"M", "O", "T", "_", "B", "A", "T", "_", "V", "O", "L", "T", "_", "M", "A", "X">>,
      <<"I", "N", "S", "_", "G", "Y", "R", "O", "F", "F", "S", "_", "X">>,
      <<"b", "a", "t", "t", "_", "c", "a", "p", "a", "c", "i", "t", "y">>,
      <<"F", "s", "_", "T", "h", "r", "_", "E", "n", "a", "b", "l", "e">>,
      <<"W", "P", "N", "A", "V", "_", "S", "P", "E", "E", "D">>,
      <<>>,
      <<"B", "A", "T", "_", "S", "O", "M", "E", "T", "H", "I", "N", "G">>,
      <<"X", "_", "B", "A", "T", "T", "_", "Y">> }
ParamValues == {5200}

MAV_PARAM_TYPE_REAL32 == 9

\* DroneConnection.set_param: enqueues and returns nothing
SetParamReturns == "None"
\* `not ok` of api_params_set
PyNot(v) == v \in {"None", "False"}

prmOthers == <<rcVars, linkVars, upVars, dlVars, vehVars, telVars, stVars, bcVars,
               regVars, hbVars, hsVars,
              pfVars, lateVars>>

\* POST /api/params/set
ApiParamsSet(bound) ==
    /\ prmCalls < bound
    /\ prmCalls' = prmCalls + 1
    /\ \E param_id \in ParamNames, value \in ParamValues, confirm \in BOOLEAN :
          LET req == [param_id |-> param_id, value |-> value, confirm |-> confirm]
              i   == CriticalIndexFrom(StrUpper(param_id), 1)
              cmd == [param_id |-> param_id, value |-> value,
                      param_type |-> MAV_PARAM_TYPE_REAL32]
          IN  IF ~connected
              THEN /\ prmCall' = [status |-> "error", error |-> "Not connected",
                                  req |-> req, enqueued |-> FALSE]
                   /\ UNCHANGED prmQueue
              ELSE IF i # 0 /\ ~confirm
              THEN /\ prmCall' = [status |-> "confirm_required",
                                  category |-> CRITICAL_PARAM_PREFIXES[i].category,
                                  req |-> req, enqueued |-> FALSE]
                   /\ UNCHANGED prmQueue
              ELSE /\ prmQueue' = Append(prmQueue, cmd)
                   /\ prmCall' =
                         IF PyNot(SetParamReturns)
                         THEN [status |-> "error", error |-> "Invalid value",
                               req |-> req, enqueued |-> TRUE]
                         ELSE [status |-> "ok", command |-> "param_set",
                               req |-> req, enqueued |-> TRUE]
    /\ UNCHANGED prmWire
    /\ UNCHANGED prmOthers

\* the worker executes one set_param command: param_set_send
PrmWorkerExecute ==
    /\ connected /\ prmQueue # <<>>
    /\ prmWire' = Append(prmWire, [name |-> "PARAM_SET",
                                   param_id |-> Head(prmQueue).param_id,
                                   param_value |-> Head(prmQueue).value,
                                   param_type |-> Head(prmQueue).param_type])
    /\ prmQueue' = Tail(prmQueue)
    /\ UNCHANGED <<prmCall, prmCalls>>
    /\ UNCHANGED prmOthers

MaxParamCalls == 2

PrmInit ==
    /\ RcIdle /\ LinkIdle /\ EngineIdle
    /\ connected \in BOOLEAN

PrmNext ==
    \/ ApiParamsSet(MaxParamCalls)
    \/ PrmWorkerExecute

SpecParams == PrmInit /\ [][PrmNext]_vars

\* --- C15 ---
\* the prefixes the guard is documented with
GuardedPrefixes ==
    { <<"B", "A", "T", "T", "_">>, <<"F", "S", "_">>, <<"A", "R", "M", "I", "N", "G", "_">>, <<"M", "O", "T", "_">>, <<"I", "N", "S", "_">> }
IsGuarded(name) == \E p \in GuardedPrefixes : StartsWith(StrUpper(name), p)

\* C15: on a connected drone, a set request for a parameter whose
\* upper-cased name starts with BATT_, FS_, ARMING_, MOT_ or INS_ gets
\* confirm_required and enqueues nothing when confirm is false (battery being
\* the category named for BATT_CAPACITY), and gets ok and enqueues a
\* PARAM_SET when confirm is true.
C15_CriticalGuard ==
    (prmCall.status # "none" /\ connected /\ IsGuarded(prmCall.req.param_id)) =>
        IF prmCall.req.confirm
        THEN prmCall.status = "ok" /\ prmCall.enqueued
        ELSE /\ prmCall.status = "confirm_required" /\ ~prmCall.enqueued
             /\ StartsWith(StrUpper(prmCall.req.param_id), <<"B", "A", "T", "T", "_">>) =>
                   prmCall.category = "battery"

----------------------------------------------------------------------------
(* HEARTBEAT decoding (drone.py _handle_message, HEARTBEAT branch).         *)

MAV_TYPE_GCS == 6
MAV_MODE_FLAG_SAFETY_ARMED == 128

\* mode_map.get(key, default) on a table of (key, name) pairs
TableGet(table, key, default) ==
    IF \E i \in 1 .. Len(table) : table[i][1] = key
    THEN ModeName(table[CHOOSE i \in 1 .. Len(table) :
                            /\ table[i][1] = key
                            /\ \A j \in 1 .. Len(table) : table[j][1] = key => j <= i][2])
    ELSE default

\* bool(base_mode & MAV_MODE_FLAG_SAFETY_ARMED); the variant tests bit 0
HeartbeatArmedLowBit(base_mode) == base_mode % 2 = 1
HeartbeatArmed(base_mode) ==
    (base_mode \div MAV_MODE_FLAG_SAFETY_ARMED) % 2 = 1

\* the mode string of a HEARTBEAT's custom_mode
DecodeMode(is_ardupilot, mav_type, custom_mode) ==
    IF is_ardupilot
    THEN TableGet(ardupilot_modes_for_type(mav_type), custom_mode,
                  ModeFormat("MODE_", <<custom_mode>>))
    ELSE LET main_mode == (custom_mode \div 65536) % 256
             sub_mode  == (custom_mode \div 16777216) % 256
         IN  TableGet(PX4_MODES, <<main_mode, sub_mode>>,
                      ModeFormat("PX4_", <<main_mode, sub_mode>>))

HbBaseModes   == {0, 81, 89, 127, 128, 209, 217}
HbCustomModes == {0, 4, 5, 8, 99, 65540, 196608, 67371008, 151584768}
HbMavTypes    == {1, 2, 10, 12, 13, 42}
HbMsgTypes    == {2, MAV_TYPE_GCS}

hbOthers == <<rcVars, linkVars, upVars, dlVars, vehVars, telVars, stVars, bcVars,
              regVars, prmVars, hsVars,
              pfVars, lateVars>>

\* connect(): the handshake's vehicle heartbeat fixes the autopilot flavour
\* and the vehicle type of the connection
HbConnect ==
    /\ ~hbConn.connected
    /\ \E is_ardupilot \in BOOLEAN, mav_type \in HbMavTypes :
          hbConn' = [connected |-> TRUE, is_ardupilot |-> is_ardupilot,
                     mav_type |-> mav_type]
    /\ UNCHANGED <<hbMsg, hbTel, hbCount>>
    /\ UNCHANGED hbOthers

\* the worker handles one HEARTBEAT, its fields drawn from the given sets
HandleHeartbeatOf(bound, froms, types, base_modes, custom_modes) ==
    /\ hbConn.connected
    /\ hbCount < bound
    /\ hbCount' = hbCount + 1
    /\ \E from_target \in froms, type \in types,
          base_mode \in base_modes, custom_mode \in custom_modes :
          /\ hbMsg' = [from_target |-> from_target, type |-> type,
                       base_mode |-> base_mode, custom_mode |-> custom_mode,
                       before |-> hbTel]
          /\ hbTel' =
                IF ~from_target \/ type = MAV_TYPE_GCS THEN hbTel
                ELSE [armed |-> HeartbeatArmed(base_mode),
                      mode  |-> DecodeMode(hbConn.is_ardupilot, hbConn.mav_type,
                                           custom_mode)]
    /\ UNCHANGED hbConn
    /\ UNCHANGED hbOthers

\* the worker handles one HEARTBEAT
HandleHeartbeat(bound) ==
    HandleHeartbeatOf(bound, BOOLEAN, HbMsgTypes, HbBaseModes, HbCustomModes)

MaxHeartbeats == 1

HbInit ==
    /\ RcIdle /\ LinkIdle /\ EngineIdle
    /\ connected = FALSE

HbNext ==
    \/ HbConnect
    \/ HandleHeartbeat(MaxHeartbeats)

SpecHeartbeat == HbInit /\ [][HbNext]_vars

\* --- C16 ---
\* the decoding as documented: the name listed for the key in the table, or
\* the fallback string
ListedName(table, key, fallback) ==
    IF \E i \in 1 .. Len(table) : table[i][1] = key
    THEN ModeName((CHOOSE e \in { table[i] : i \in 1 .. Len(table) } : e[1] = key)[2])
    ELSE fallback

\* C16: after a HEARTBEAT of the connected autopilot, armed is
\* (base_mode & 128) != 0 and mode is, for ArduPilot, the name of custom_mode
\* in the table of the vehicle's mav_type or MODE_<n>, and for PX4 the name
\* of ((custom_mode >> 16) & 0xFF, (custom_mode >> 24) & 0xFF) or PX4_<m>_<s>.
C16_HeartbeatDecode ==
    (hbMsg # NoHeartbeat /\ hbMsg.from_target /\ hbMsg.type # MAV_TYPE_GCS) =>
        LET c == hbMsg.custom_mode
            m == (c \div 65536) % 256
            s == (c \div 16777216) % 256
        IN  /\ hbTel.armed = ((hbMsg.base_mode % 256) >= 128)
            /\ hbTel.mode =
                  IF hbConn.is_ardupilot
                  THEN ListedName(ardupilot_modes_for_type(hbConn.mav_type), c,
                                  ModeFormat("MODE_", <<c>>))
                  ELSE ListedName(PX4_MODES, <<m, s>>, ModeFormat("PX4_", <<m, s>>))

\* the documented example: base_mode 217, custom_mode 4 on an ArduPilot
\* quadrotor gives GUIDED, armed
C16_Witness ==
    /\ hbMsg # NoHeartbeat /\ hbMsg.from_target /\ hbMsg.type # MAV_TYPE_GCS
    /\ hbMsg.base_mode = 217 /\ hbMsg.custom_mode = 4
    /\ hbConn.is_ardupilot /\ hbConn.mav_type = 2
    /\ hbTel = [armed |-> TRUE, mode |-> ModeName("GUIDED")]

----------------------------------------------------------------------------
(* Specification SpecModes: set_mode with a name of the static mode list,  *)
(* and the vehicle reporting the commanded custom_mode in its HEARTBEAT.   *)
(* The autopilot flavour and the vehicle type are the attributes connect() *)
(* sets once; the encoder and the decoder read the same two attributes.    *)

MaxModeCalls == 1
MaxModeBeats == 1
ModeMavTypes == {1, 2, 10, 12}

mdOthers == <<rcVars, upVars, dlVars, vehVars, telVars, stVars, bcVars, regVars,
              prmVars, hsVars, pfVars, mxVars, fnVars, dvVars, msVars, lvVars,
              xcVars, rtVars>>

\* connect(): _is_ardupilot and _mav_type from the vehicle's heartbeat
ModesConnect ==
    /\ ~hbConn.connected
    /\ \E is_ardupilot \in BOOLEAN, mav_type \in ModeMavTypes :
          /\ hbConn' = [connected |-> TRUE, is_ardupilot |-> is_ardupilot,
                        mav_type |-> mav_type]
          /\ isArdupilot' = is_ardupilot /\ mavType' = mav_type
    /\ UNCHANGED <<cmdQueue, wire, workerPc, nextId, executed, wsAlive>>
    /\ UNCHANGED <<hbMsg, hbTel, hbCount, mdVars, mdOthers>>

\* set_mode(name) with a name of get_static_modes()
SetModeStatic(bound) ==
    /\ hbConn.connected /\ Len(mdAsked) < bound
    /\ \E m \in get_static_modes(isArdupilot, mavType) :
          /\ EnqueueCmd("set_mode", "direct", <<>>, m, NoAxes, NoItem)
          /\ mdAsked' = Append(mdAsked, [id |-> nextId, mode |-> m])
    /\ UNCHANGED <<wire, workerPc, isArdupilot, mavType, executed, wsAlive>>
    /\ UNCHANGED <<hbVars, mdOthers>>

\* the vehicle reports the custom_mode it was last commanded, and the
\* worker handles that HEARTBEAT
ModeHeartbeat(bound) ==
    /\ wire # <<>>
    /\ HandleHeartbeatOf(bound, {TRUE}, {mavType}, {MAV_MODE_FLAG_CUSTOM_MODE_ENABLED},
                         {wire[Len(wire)].p2})

ModesInit ==
    /\ RcIdle /\ LinkIdle /\ EngineIdle
    /\ connected = TRUE

ModesNext ==
    \/ ModesConnect
    \/ SetModeStatic(MaxModeCalls)
    \/ WorkerTop /\ LinkFrame
    \/ WorkerDrainOne /\ LinkFrame
    \/ WorkerDrainDone /\ LinkFrame
    \/ WorkerRecvNone /\ LinkFrame
    \/ ModeHeartbeat(MaxModeBeats)

SpecModes == ModesInit /\ [][ModesNext]_vars

\* --- C40 ---
\* C40: for every name of the static mode list of the vehicle's flavour and
\* mav_type, set_mode puts a mode command on the wire, and the custom_mode
\* of that command, reported back in a HEARTBEAT, is decoded to the same
\* name.
C40_ModeRoundTrip ==
    /\ \A i \in 1 .. Len(mdAsked) :
          (\E e \in 1 .. Len(executed) : executed[e] = mdAsked[i].id) =>
             \E k \in 1 .. Len(wire) :
                /\ wire[k].id = mdAsked[i].id
                /\ wire[k].name \in {"SET_MODE", "COMMAND_LONG"}
    /\ hbMsg # NoHeartbeat =>
          \A i \in 1 .. Len(mdAsked) : \A k \in 1 .. Len(wire) :
             (wire[k].id = mdAsked[i].id /\ wire[k].p2 = hbMsg.custom_mode) =>
                hbTel.mode = ModeName(mdAsked[i].mode)

\* MANUAL, listed under two keys of PX4_MODES, went out as 1 << 16 and came
\* back as MANUAL
C40_Witness ==
    /\ hbMsg # NoHeartbeat /\ ~hbConn.is_ardupilot
    /\ Len(mdAsked) = 1 /\ mdAsked[1].mode = "MANUAL"
    /\ Len(wire) = 1 /\ wire[1].p2 = 65536 /\ hbMsg.custom_mode = 65536
    /\ hbTel.mode = ModeName("MANUAL")

----------------------------------------------------------------------------
(* The connect handshake (drone.py connect, lines 340-382, and              *)
(* _register_component).  Time passes while recv_match blocks.              *)

HsTicksPerSec    == 4
HandshakeSeconds == 10
RecvSeconds      == 1

VEHICLE_TYPES ==
    {0, 1, 2, 3, 4, 7, 8, 9, 10, 11, 12, 13, 14, 15, 16, 17, 19, 20, 21, 22, 23,
     24, 25, 28, 29, 35}
PERIPHERAL_TYPES ==
    {5, 6, 18, 26, 27, 30, 31, 32, 33, 34, 36, 37, 38, 39, 40, 41, 42}

ComponentCategory(mav_type) ==
    IF mav_type \in VEHICLE_TYPES THEN "vehicle"
    ELSE IF mav_type \in PERIPHERAL_TYPES THEN "peripheral"
    ELSE "unknown"

\* DroneConnection._register_component on the dict of components
RegisterComponent(components, src_system, src_component, mav_type) ==
    LET key == <<src_system, src_component>>
        i   == KeyIndexFrom(components, key, 1)
    IN  IF i = 0
        THEN Append(components, [key |-> key, mav_type |-> mav_type,
                                 category |-> ComponentCategory(mav_type),
                                 heartbeat_count |-> 1])
        ELSE [components EXCEPT ![i].heartbeat_count = @ + 1]

\* the heartbeats that reach the socket during the handshake
HsSystems    == {1}
HsComponents == {1, 100}
HsTypes      == {2, 6, 30}

hsOthers == <<rcVars, linkVars, dlVars, vehVars, telVars, stVars, bcVars,
              regVars, prmVars, hbVars,
              pfVars, lateVars>>
upNoConn == <<now, linkRx, missionInbox, missionStatus, upPc, upWaypoints,
              upDeadline, upRecvStart, upResult, upFirstEvent, upCalls, requestsSent>>

\* connect() up to start_time = time.time()
HsConnect ==
    /\ hsPc = "idle"
    /\ hsPc' = "loop"
    /\ UNCHANGED <<hsNow, hsRecvStart, hsLastHbSent, hsComponents, hsTarget, hsSeen>>
    /\ UNCHANGED <<hsOthers, upVars>>

\* the loop test, the GCS heartbeat sent every second, and the call of
\* recv_match
HsLoopTop ==
    /\ hsPc = "loop"
    /\ hsNow < HandshakeSeconds * HsTicksPerSec
    /\ hsLastHbSent' = IF hsLastHbSent = Never \/ hsNow - hsLastHbSent >= HsTicksPerSec
                       THEN hsNow ELSE hsLastHbSent
    /\ hsRecvStart' = hsNow
    /\ hsPc' = "recv"
    /\ UNCHANGED <<hsNow, hsComponents, hsTarget, hsSeen>>
    /\ UNCHANGED <<hsOthers, upVars>>

\* the loop ends without a vehicle_msg: the link is closed, connect
\* returns False
HsGiveUp ==
    /\ hsPc = "loop"
    /\ hsNow >= HandshakeSeconds * HsTicksPerSec
    /\ hsPc' = "failed"
    /\ UNCHANGED <<hsNow, hsRecvStart, hsLastHbSent, hsComponents, hsTarget, hsSeen>>
    /\ UNCHANGED <<hsOthers, upVars>>

\* time passes while recv_match blocks
HsTick ==
    /\ hsPc = "recv"
    /\ hsNow - hsRecvStart < RecvSeconds * HsTicksPerSec
    /\ hsNow' = hsNow + 1
    /\ UNCHANGED <<hsPc, hsRecvStart, hsLastHbSent, hsComponents, hsTarget, hsSeen>>
    /\ UNCHANGED <<hsOthers, upVars>>

\* recv_match returns None after its timeout
HsRecvNone ==
    /\ hsPc = "recv"
    /\ hsNow - hsRecvStart >= RecvSeconds * HsTicksPerSec
    /\ hsPc' = "loop"
    /\ UNCHANGED <<hsNow, hsRecvStart, hsLastHbSent, hsComponents, hsTarget, hsSeen>>
    /\ UNCHANGED <<hsOthers, upVars>>

\* recv_match returns a HEARTBEAT: the component is registered; a heartbeat
\* of component 1 ends the loop and connect returns True
HsRecvHeartbeat(bound) ==
    /\ hsPc = "recv"
    /\ Len(hsSeen) < bound
    /\ \E src_system \in HsSystems, src_component \in HsComponents,
          mav_type \in HsTypes :
          LET msg == [src_system |-> src_system, src_component |-> src_component,
                      type |-> mav_type, at |-> hsNow]
          IN  /\ hsSeen' = Append(hsSeen, msg)
              /\ hsComponents' = RegisterComponent(hsComponents, src_system,
                                                   src_component, mav_type)
              /\ IF src_component = 1
                 THEN /\ hsTarget' = msg
                      /\ hsPc' = "ok"
                      /\ connected' = TRUE
                 ELSE /\ hsPc' = "loop"
                      /\ UNCHANGED <<hsTarget, connected>>
    /\ UNCHANGED <<hsNow, hsRecvStart, hsLastHbSent>>
    /\ UNCHANGED <<hsOthers, upNoConn>>

MaxHsMsgs == 2

HsInit ==
    /\ RcIdle /\ LinkIdle /\ EngineIdle
    /\ connected = FALSE

HsNext ==
    \/ HsConnect
    \/ HsLoopTop
    \/ HsGiveUp
    \/ HsTick
    \/ HsRecvNone
    \/ HsRecvHeartbeat(MaxHsMsgs)

SpecHandshake == HsInit /\ [][HsNext]_vars

\* --- C17 ---
\* C17: connect returns success only if a HEARTBEAT of component 1 with a
\* mav_type in VEHICLE_TYPES was received within 10 s of its start; every
\* heartbeat of another component is in the component inventory and has not
\* completed the handshake; connect fails when the 10 s pass without one.
C17_HandshakeNeedsVehicle ==
    /\ hsPc = "ok" =>
          \E i \in 1 .. Len(hsSeen) :
              /\ hsSeen[i].src_component = 1
              /\ hsSeen[i].type \in VEHICLE_TYPES
              /\ hsSeen[i].at <= HandshakeSeconds * HsTicksPerSec
    /\ \A i \in 1 .. Len(hsSeen) :
          hsSeen[i].src_component # 1 =>
              /\ HasKey(hsComponents, <<hsSeen[i].src_system, hsSeen[i].src_component>>)
              /\ hsTarget # hsSeen[i]
    /\ hsPc = "failed" => hsTarget = NoHeartbeat /\ ~connected

----------------------------------------------------------------------------
(* Vehicle capability profiles (vehicle_profiles.py).                       *)

VEHICLE_PROFILES ==
    << [name |-> "copter", mav_types |-> <<2, 3, 4, 13, 14, 15, 29, 35>>,
        category |-> "air", has_depth |-> FALSE, supports_takeoff |-> TRUE],
       [name |-> "plane",  mav_types |-> <<1>>,
        category |-> "air", has_depth |-> FALSE, supports_takeoff |-> TRUE],
       [name |-> "vtol",   mav_types |-> <<19, 20, 21, 22, 23, 24, 25>>,
        category |-> "air", has_depth |-> FALSE, supports_takeoff |-> TRUE],
       [name |-> "rover",  mav_types |-> <<10>>,
        category |-> "ground", has_depth |-> FALSE, supports_takeoff |-> FALSE],
       [name |-> "boat",   mav_types |-> <<11>>,
        category |-> "surface", has_depth |-> FALSE, supports_takeoff |-> FALSE],
       [name |-> "sub",    mav_types |-> <<12>>,
        category |-> "underwater", has_depth |-> TRUE, supports_takeoff |-> FALSE] >>

\* {**profile, "profile_name": name}
ProfileEntry(p) ==
    [profile_name |-> p.name, mav_types |-> p.mav_types, category |-> p.category,
     has_depth |-> p.has_depth, supports_takeoff |-> p.supports_takeoff]

Lists(p, mav_type) == \E k \in 1 .. Len(p.mav_types) : p.mav_types[k] = mav_type

\* the fallback of get_profile; the variant falls back to the last profile
DefaultProfileLast == ProfileEntry(VEHICLE_PROFILES[Len(VEHICLE_PROFILES)])
DEFAULT_PROFILE == ProfileEntry(VEHICLE_PROFILES[1])

\* _MAV_TYPE_TO_PROFILE.get(mav_type, default): the build loop lets a later
\* profile overwrite the entry of an earlier one
RECURSIVE MavTypeToProfileGet(_, _, _)
MavTypeToProfileGet(mav_type, i, found) ==
    IF i > Len(VEHICLE_PROFILES) THEN found
    ELSE MavTypeToProfileGet(mav_type, i + 1,
             IF Lists(VEHICLE_PROFILES[i], mav_type)
             THEN ProfileEntry(VEHICLE_PROFILES[i]) ELSE found)

get_profile(mav_type) == MavTypeToProfileGet(mav_type, 1, DEFAULT_PROFILE)

\* the MAV_TYPE values get_profile is called with
ProfileArgs == (-5 .. 110) \cup {999}

pfOthers == <<rcVars, linkVars, upVars, dlVars, vehVars, telVars, stVars, bcVars,
              regVars, prmVars, hbVars, hsVars, lateVars>>

GetProfileCall ==
    /\ \E mav_type \in ProfileArgs :
          /\ pfIn' = mav_type
          /\ pfOut' = get_profile(mav_type)
    /\ UNCHANGED pfOthers

PfInit ==
    /\ RcIdle /\ LinkIdle /\ EngineIdle
    /\ connected = FALSE

PfNext == GetProfileCall

SpecProfiles == PfInit /\ [][PfNext]_vars

\* --- C20 ---
\* C20: get_profile(t) returns the profile whose mav_types list holds t,
\* with profile_name the key of that profile, and the copter profile for
\* every other integer.
C20_ProfileLookup ==
    pfOut # NoProfile =>
        IF \E i \in 1 .. Len(VEHICLE_PROFILES) : Lists(VEHICLE_PROFILES[i], pfIn)
        THEN \E i \in 1 .. Len(VEHICLE_PROFILES) :
                /\ Lists(VEHICLE_PROFILES[i], pfIn)
                /\ pfOut.profile_name = VEHICLE_PROFILES[i].name
                /\ pfOut = ProfileEntry(VEHICLE_PROFILES[i])
        ELSE /\ pfOut.profile_name = "copter"
             /\ pfOut.mav_types = <<2, 3, 4, 13, 14, 15, 29, 35>>

\* an unlisted type got the copter profile
C20_Witness ==
    /\ pfIn = 999
    /\ pfOut.profile_name = "copter" /\ pfOut.supports_takeoff

====
